---------------------------- MODULE Spec2Model ----------------------------
(***************************************************************************)
(* A model of snow-itom-auditor: the compliance scorer (scoring.py), the   *)
(* audit engine (engine.py), the domain audit runners (tools/cmdb.py,      *)
(* tools/discovery.py, tools/assets.py, tools/orchestration.py), the data  *)
(* source client (client.py), the JSON storage (storage.py), and the       *)
(* remediation, history and report tools (tools/remediation.py,            *)
(* tools/history.py, tools/reports.py).                                    *)
(*                                                                         *)
(* Numbers.  The program's scores and percentages are Python floats that   *)
(* are rounded to two decimals before they are stored.  The model keeps    *)
(* them as integers counted in hundredths (100.0 is 10000, 33.33 is 3333)  *)
(* and keeps the unrounded intermediate values as exact fractions          *)
(* [num, den], so that rounding is a step of the model.                    *)
(*                                                                         *)
(* Exceptions.  A call either returns a value or raises.  The model gives  *)
(* every call the result [raised, value]; a caller without a handler       *)
(* passes a raised result on.                                              *)
(***************************************************************************)
EXTENDS Integers, Sequences, FiniteSets, TLC

(***************************************************************************)
(* Bounds of the model.                                                    *)
(***************************************************************************)
\* longest list of check functions handed to run_audit
MaxFns == 3
\* most passing checks of one severity in a list handed to calculate_score
MaxPassed == 3
\* most failing checks of one severity in a list handed to calculate_score
MaxFailed == 1
\* most records the data source returns to a query of a check function
MaxRecords == 2
\* most active discovery patterns the data source returns
MaxPatterns == 5
\* most remediation plans made in one behaviour
MaxPlans == 1

\* The most files the history directory holds.
MaxFiles == 2

\* The latest time a file is written at.
MaxClock == 3

\* The most records of the population a CMDB rate check counts.
MaxTotal == 20

\* The longest list of checks of any severity and status handed to
\* calculate_score.
MaxChecks == 3

\* The largest servicenow_max_retries the client is configured with.
MaxRetries == 2

(***************************************************************************)
(* models.py                                                               *)
(***************************************************************************)
CheckSeverity == {"critical", "high", "medium", "low"}

CheckStatus == {"pass", "fail", "skip", "error"}

AuditType == {"cmdb", "discovery", "asset", "full"}

RemediationItemStatus == {"pending", "in_progress", "done", "skipped"}

\* An AuditCheck.  details is kept as a token: "findings" for the text a
\* check function writes, "traceback" for traceback.format_exc().
AuditCheck(name, severity, status, details) ==
    [name |-> name, severity |-> severity, status |-> status, details |-> details]

\* The value of a call that raised, and of `score` before it is computed.
NoCheck == AuditCheck("", "medium", "skip", "")

NoScore ==
    [overall_score |-> -1, critical_score |-> -1, high_score |-> -1,
     medium_score |-> -1, low_score |-> -1,
     passed_count |-> 0, failed_count |-> 0, total_count |-> 0]

(***************************************************************************)
(* Calls that return or raise.                                             *)
(***************************************************************************)
Return(v) == [raised |-> FALSE, value |-> v]

Raise(v) == [raised |-> TRUE, value |-> v]

(***************************************************************************)
(* Arithmetic: exact fractions and Python's round(x, 2).                   *)
(***************************************************************************)
RECURSIVE GCD(_, _)
GCD(a, b) == IF b = 0 THEN a ELSE GCD(b, a % b)

\* The fraction n/d in lowest terms; n >= 0 and d > 0.
Frac(n, d) == LET g == GCD(n, d) IN [num |-> n \div g, den |-> d \div g]

FracAdd(a, b) == Frac(a.num * b.den + b.num * a.den, a.den * b.den)

FracMul(a, b) == Frac(a.num * b.num, a.den * b.den)

FracDiv(a, b) == Frac(a.num * b.den, a.den * b.num)

\* a < b, for fractions with positive denominators
FracLess(a, b) == a.num * b.den < b.num * a.den

\* round(x, 2) of the non-negative fraction x, in hundredths: the nearest
\* hundredth, a tie going to the even one.
Round2(x) ==
    LET n == x.num * 100
        q == n \div x.den
        r == n % x.den
    IN  IF 2 * r < x.den THEN q
        ELSE IF 2 * r > x.den THEN q + 1
        ELSE IF q % 2 = 0 THEN q ELSE q + 1

\* The hundredths h as a fraction.
Hundredths(h) == Frac(h, 100)

(***************************************************************************)
(* scoring.py: ComplianceScorer                                            *)
(***************************************************************************)
\* SEVERITY_WEIGHTS, in dict order; the weights 0.4, 0.3, 0.2, 0.1 as fractions.
SeverityOrder == <<"critical", "high", "medium", "low">>

\* A slip in the table: the weights in ascending order.
SEVERITY_WEIGHTS_Ascending ==
    [critical |-> Frac(1, 10), high |-> Frac(2, 10),
     medium |-> Frac(3, 10), low |-> Frac(4, 10)]

\* A table that weighs every severity alike.
SEVERITY_WEIGHTS_Equal ==
    [critical |-> Frac(1, 4), high |-> Frac(1, 4),
     medium |-> Frac(1, 4), low |-> Frac(1, 4)]

SEVERITY_WEIGHTS ==
    [critical |-> Frac(4, 10), high |-> Frac(3, 10),
     medium |-> Frac(2, 10), low |-> Frac(1, 10)]

scoreable_statuses == {"pass", "fail"}

\* tier_checks without the test of the status.
tier_checks_AnyStatus(checks, severity) ==
    SelectSeq(checks, LAMBDA c : c.severity = severity)

\* tier_checks of the loop body: the scoreable checks of one severity.
tier_checks(checks, severity) ==
    SelectSeq(checks, LAMBDA c : c.severity = severity /\ c.status \in scoreable_statuses)

CountStatus(checks, status) == Len(SelectSeq(checks, LAMBDA c : c.status = status))

\* A slip in the pass rate: the failing share instead of the passing one.
TierScore_FailRate(checks, severity) ==
    LET tc == tier_checks(checks, severity)
    IN  IF Len(tc) = 0 THEN Frac(100, 1)
        ELSE FracMul(Frac(CountStatus(tc, "fail"), Len(tc)), Frac(100, 1))

\* tier_scores[severity], unrounded.
TierScore(checks, severity) ==
    LET tc == tier_checks(checks, severity)
    IN  IF Len(tc) = 0 THEN Frac(100, 1)
        ELSE FracMul(Frac(CountStatus(tc, "pass"), Len(tc)), Frac(100, 1))

\* The second loop: overall += tier_scores[severity] * weight, over the first k
\* severities.
RECURSIVE WeightedSum(_, _)
WeightedSum(checks, k) ==
    IF k = 0 THEN Frac(0, 1)
    ELSE FracAdd(WeightedSum(checks, k - 1),
                 FracMul(TierScore(checks, SeverityOrder[k]),
                         SEVERITY_WEIGHTS[SeverityOrder[k]]))

RECURSIVE WeightSum(_)
WeightSum(k) ==
    IF k = 0 THEN Frac(0, 1)
    ELSE FracAdd(WeightSum(k - 1), SEVERITY_WEIGHTS[SeverityOrder[k]])

\* The totals of the first loop: a severity adds to them only when it has
\* scoreable checks.
RECURSIVE TotalCount(_, _, _)
TotalCount(checks, status, k) ==
    IF k = 0 THEN 0
    ELSE TotalCount(checks, status, k - 1)
         + CountStatus(tier_checks(checks, SeverityOrder[k]), status)

\* total_count with a slip: every check of the list is counted.
TierTotal_AllChecks(checks, k) == Len(checks)

\* total_count of the first loop: total_count += len(tier_checks).
RECURSIVE TierTotal(_, _)
TierTotal(checks, k) ==
    IF k = 0 THEN 0
    ELSE TierTotal(checks, k - 1) + Len(tier_checks(checks, SeverityOrder[k]))

calculate_score(checks) ==
    LET n == Len(SeverityOrder)
        weight_sum == WeightSum(n)
        summed == WeightedSum(checks, n)
        overall == IF weight_sum.num > 0 THEN FracDiv(summed, weight_sum) ELSE summed
        total_passed == TotalCount(checks, "pass", n)
        total_failed == TotalCount(checks, "fail", n)
    IN  [overall_score |-> Round2(overall),
         critical_score |-> Round2(TierScore(checks, "critical")),
         high_score |-> Round2(TierScore(checks, "high")),
         medium_score |-> Round2(TierScore(checks, "medium")),
         low_score |-> Round2(TierScore(checks, "low")),
         passed_count |-> total_passed,
         failed_count |-> total_failed,
         total_count |-> TierTotal(checks, n)]

(***************************************************************************)
(* engine.py: AuditEngine                                                  *)
(***************************************************************************)
\* A check function as run_check sees it: its __name__ and what calling it
\* does, a Return(AuditCheck) or a Raise.
CheckFn(fname, call) == [fname |-> fname, call |-> call]

\* run_check without its except clause: the exception leaves run_check.
run_check_NoExcept(check_fn) == check_fn.call

\* run_check: the try/except around check_fn(**kwargs).
run_check(check_fn) ==
    IF check_fn.call.raised
    THEN Return(AuditCheck(check_fn.fname, "medium", "error", "traceback"))
    ELSE check_fn.call

\* The for loop of run_audit over the first k functions: the checks gathered
\* and the functions called, or the exception that left the loop.
RECURSIVE RunChecks(_, _)
RunChecks(check_fns, k) ==
    IF k = 0 THEN [raised |-> FALSE, checks |-> <<>>, called |-> <<>>]
    ELSE LET before == RunChecks(check_fns, k - 1)
             check == run_check(check_fns[k])
         IN  IF before.raised THEN before
             ELSE [raised |-> check.raised,
                   checks |-> IF check.raised THEN before.checks
                              ELSE Append(before.checks, check.value),
                   called |-> Append(before.called, check_fns[k].fname)]

\* The status with the two tests in the wrong order: fail before error.
AuditStatus_FailFirst(checks) ==
    IF CountStatus(checks, "fail") > 0 THEN "completed"
    ELSE IF \E i \in 1..Len(checks) : checks[i].status = "error" THEN "completed_with_errors"
    ELSE "passed"

\* result.status of run_audit.
AuditStatus(checks) ==
    IF \E i \in 1..Len(checks) : checks[i].status = "error" THEN "completed_with_errors"
    ELSE IF CountStatus(checks, "fail") > 0 THEN "completed"
    ELSE "passed"

\* result.summary: the four numbers of the f-string.
AuditSummary(checks) ==
    <<CountStatus(checks, "pass"), CountStatus(checks, "fail"),
      CountStatus(checks, "error"), Len(checks)>>

\* completed_at is "None" or "now": the time itself plays no part.
AuditResult(audit_type, completed_at, checks, score, status, summary) ==
    [audit_type |-> audit_type, completed_at |-> completed_at, checks |-> checks,
     score |-> score, status |-> status, summary |-> summary]

\* The AuditResult as constructed at the top of run_audit.
RunningResult(audit_type) ==
    AuditResult(audit_type, "None", <<>>, NoScore, "running", <<0, 0, 0, 0>>)

\* run_audit that does not set completed_at.
run_audit_NoCompletion(audit_type, check_fns) ==
    LET loop == RunChecks(check_fns, Len(check_fns))
    IN  IF loop.raised
        THEN [raised |-> TRUE, value |-> RunningResult(audit_type), called |-> loop.called]
        ELSE [raised |-> FALSE,
              value |-> AuditResult(audit_type, "None", loop.checks, calculate_score(loop.checks),
                                    AuditStatus(loop.checks), AuditSummary(loop.checks)),
              called |-> loop.called]

\* run_audit(audit_type, check_fns)
run_audit(audit_type, check_fns) ==
    LET loop == RunChecks(check_fns, Len(check_fns))
    IN  IF loop.raised
        THEN [raised |-> TRUE, value |-> RunningResult(audit_type), called |-> loop.called]
        ELSE [raised |-> FALSE,
              value |-> AuditResult(audit_type, "now", loop.checks, calculate_score(loop.checks),
                                    AuditStatus(loop.checks), AuditSummary(loop.checks)),
              called |-> loop.called]

(***************************************************************************)
(* The check functions.  What a check function reads from the data source  *)
(* is its reply: fault when a query raised, total the number of records of *)
(* the population query, found the number of records of the query for the  *)
(* violating (or counted) records.                                         *)
(***************************************************************************)
Reply(fault, total, found) == [fault |-> fault, total |-> total, found |-> found]

\* The comparison with >= in place of >.
RateExceeds_AtLeast(found, total, threshold) ==
    IF total > 0 THEN ~FracLess(Frac(found, total), threshold) ELSE FALSE

\* found / total > threshold, with the rate 0.0 when total = 0
RateExceeds(found, total, threshold) ==
    IF total > 0 THEN FracLess(threshold, Frac(found, total)) ELSE FALSE

\* A check that fails when its violation rate exceeds the policy threshold.
RateCheck(name, severity, threshold, reply) ==
    IF reply.fault THEN Raise(NoCheck)
    ELSE Return(AuditCheck(name, severity,
                           IF RateExceeds(reply.found, reply.total, threshold)
                           THEN "fail" ELSE "pass",
                           "findings"))

\* A check that fails when its query returns any record.
AbsoluteCheck(name, severity, reply) ==
    IF reply.fault THEN Raise(NoCheck)
    ELSE Return(AuditCheck(name, severity,
                           IF reply.found > 0 THEN "fail" ELSE "pass", "findings"))

\* tools/cmdb.py
check_orphan_compliance(reply) ==
    RateCheck("cmdb_orphan_compliance", "medium", Frac(20, 100), reply)

check_stale_compliance(reply) ==
    RateCheck("cmdb_stale_compliance", "high", Frac(10, 100), reply)

check_duplicate_compliance(reply) ==
    RateCheck("cmdb_duplicate_compliance", "high", Frac(5, 100), reply)

check_missing_field_compliance(reply) ==
    RateCheck("cmdb_missing_field_compliance", "critical", Frac(15, 100), reply)

\* tools/discovery.py
check_stale_schedules(reply) == AbsoluteCheck("stale_discovery_schedules", "high", reply)

\* threshold of check_pattern_coverage
threshold == 5

check_pattern_coverage(reply) ==
    IF reply.fault THEN Raise(NoCheck)
    ELSE Return(AuditCheck("pattern_coverage",
                           IF reply.found > 0 THEN "medium" ELSE "high",
                           IF reply.found >= threshold THEN "pass" ELSE "fail",
                           "findings"))

check_ci_reconciliation(reply) == AbsoluteCheck("ci_reconciliation", "medium", reply)

\* tools/assets.py
check_license_overallocation(reply) == AbsoluteCheck("license_overallocation", "critical", reply)

check_expired_hardware(reply) == AbsoluteCheck("expired_hardware", "high", reply)

check_unassigned_assets(reply) == AbsoluteCheck("unassigned_assets", "low", reply)

\* Calling the check function named fname.
CallCheck(fname, reply) ==
    CASE fname = "check_orphan_compliance" -> check_orphan_compliance(reply)
      [] fname = "check_stale_compliance" -> check_stale_compliance(reply)
      [] fname = "check_duplicate_compliance" -> check_duplicate_compliance(reply)
      [] fname = "check_missing_field_compliance" -> check_missing_field_compliance(reply)
      [] fname = "check_stale_schedules" -> check_stale_schedules(reply)
      [] fname = "check_pattern_coverage" -> check_pattern_coverage(reply)
      [] fname = "check_ci_reconciliation" -> check_ci_reconciliation(reply)
      [] fname = "check_license_overallocation" -> check_license_overallocation(reply)
      [] fname = "check_expired_hardware" -> check_expired_hardware(reply)
      [] fname = "check_unassigned_assets" -> check_unassigned_assets(reply)

\* The check functions of the three domain runners, in the order of their
\* check_fns lists.
CmdbChecks ==
    <<"check_orphan_compliance", "check_stale_compliance",
      "check_duplicate_compliance", "check_missing_field_compliance">>

DiscoveryChecks == <<"check_stale_schedules", "check_pattern_coverage", "check_ci_reconciliation">>

AssetChecks == <<"check_license_overallocation", "check_expired_hardware", "check_unassigned_assets">>

\* A lambda of a runner's check_fns list: its __name__ is <lambda>, calling
\* it calls the check function of its body.
Lambda(body, call) == [fname |-> "<lambda>", call |-> call, body |-> body]

\* The check_fns list of a runner: each entry is a lambda around a check
\* function.
Lambdas(fnames, replies) ==
    [i \in 1..Len(fnames) |-> Lambda(fnames[i], CallCheck(fnames[i], replies[i]))]

\* run_discovery_audit and run_asset_audit, and run_cmdb_audit without a
\* severity filter: engine.run_audit over the runner's list; the result is
\* what the runner then hands to storage.save_audit_result.
run_domain_audit(audit_type, fnames, replies) == run_audit(audit_type, Lambdas(fnames, replies))

\* severity_map of run_cmdb_audit, by position in its check_fns list.
severity_map == <<"medium", "high", "high", "critical">>

\* The filter without its fallback: an empty selection stays empty.
filtered_fns_NoFallback(severity_filter) ==
    LET keep == {i \in 1..Len(CmdbChecks) : severity_map[i] = severity_filter}
        pick[i \in 0..Len(CmdbChecks)] ==
            IF i = 0 THEN <<>>
            ELSE IF i \in keep THEN Append(pick[i - 1], CmdbChecks[i]) ELSE pick[i - 1]
    IN  IF severity_filter \in {"None", ""} THEN CmdbChecks ELSE pick[Len(CmdbChecks)]

\* The check_fns of run_cmdb_audit after its severity filter: the functions
\* of that severity, or all of them when there is no filter ("None" or the
\* empty string) or no function has that severity.
filtered_fns(severity_filter) ==
    LET keep == {i \in 1..Len(CmdbChecks) : severity_map[i] = severity_filter}
        pick[i \in 0..Len(CmdbChecks)] ==
            IF i = 0 THEN <<>>
            ELSE IF i \in keep THEN Append(pick[i - 1], CmdbChecks[i]) ELSE pick[i - 1]
    IN  IF severity_filter \in {"None", ""} \/ keep = {}
        THEN CmdbChecks ELSE pick[Len(CmdbChecks)]

\* run_cmdb_audit(config, client, storage, severity_filter) up to the save.
run_cmdb_audit(severity_filter, replies) ==
    run_audit("cmdb", Lambdas(filtered_fns(severity_filter), replies))

(***************************************************************************)
(* tools/orchestration.py: run_full_audit                                  *)
(***************************************************************************)
\* The check functions of the full audit in another order: assets first.
all_check_fns_AssetsFirst == AssetChecks \o CmdbChecks \o DiscoveryChecks

\* all_check_fns: the functions the ten lambdas call, in list order.
all_check_fns == CmdbChecks \o DiscoveryChecks \o AssetChecks

\* The except clause with another severity for its error outcome.
full_check_HighError(check_fn) ==
    IF check_fn.call.raised
    THEN AuditCheck(check_fn.fname, "high", "error", "str(exc)")
    ELSE check_fn.call.value

\* The try/except of the loop of run_full_audit around one fn().
full_check(check_fn) ==
    IF check_fn.call.raised
    THEN AuditCheck(check_fn.fname, "medium", "error", "str(exc)")
    ELSE check_fn.call.value

\* run_full_audit(config, client, storage) up to the save.
run_full_audit(replies) ==
    LET fns == Lambdas(all_check_fns, replies)
        checks_ == [i \in 1..Len(fns) |-> full_check(fns[i])]
        passed == CountStatus(checks_, "pass")
        failed == CountStatus(checks_, "fail")
        errors == CountStatus(checks_, "error")
    IN  [raised |-> FALSE,
         value |-> AuditResult("full", "now", checks_, calculate_score(checks_),
                               IF errors > 0 THEN "completed_with_errors"
                               ELSE IF failed > 0 THEN "completed" ELSE "passed",
                               <<"Full audit", passed, failed, errors, Len(checks_)>>),
         called |-> [i \in 1..Len(fns) |-> fns[i].fname]]

(***************************************************************************)
(* client.py: ServiceNowClient                                             *)
(*                                                                         *)
(* What session.request does at one attempt is an attempt result: a        *)
(* response with a status code and a Retry-After header (<<>> when absent, *)
(* <<seconds>> otherwise), or an exception of the requests library.        *)
(***************************************************************************)
Response(status_code, retry_after) ==
    [kind |-> "response", status_code |-> status_code, retry_after |-> retry_after]

RequestsException(exc) == [kind |-> "exception", exc |-> exc]

\* An exception of exceptions.py; retry_after is <<>> for None.
AuditError(name, retry_after) == [name |-> name, retry_after |-> retry_after]

\* _raise_for_status(response): returns for an ok response, raises the
\* typed exception of the status code otherwise.
raise_for_status(response) ==
    IF response.status_code < 400 THEN Return(AuditError("None", <<>>))
    ELSE IF response.status_code = 401 THEN Raise(AuditError("AuditAuthError", <<>>))
    ELSE IF response.status_code = 403 THEN Raise(AuditError("AuditPermissionError", <<>>))
    ELSE IF response.status_code = 404 THEN Raise(AuditError("AuditNotFoundError", <<>>))
    ELSE IF response.status_code = 429
         THEN Raise(AuditError("AuditRateLimitError", response.retry_after))
    ELSE Raise(AuditError("AuditAPIError", <<>>))

\* The range of the loop with its end one too low: max_retries attempts.
LastAttempt_NoRetryLeft(max_retries) == max_retries

\* The last value of attempt in range(1, self.max_retries + 2).
LastAttempt(max_retries) == max_retries + 1

\* wait of the rate-limit handler: exc.retry_after or 2 ** (attempt - 1).
RateLimitWait(retry_after, attempt) ==
    IF retry_after # <<>> /\ retry_after[1] # 0 THEN retry_after[1] ELSE 2 ^ (attempt - 1)

\* The for loop of _request from the given attempt on; st holds
\* last_exception and the waits slept so far.  session[attempt] is what
\* session.request does at that attempt.
RECURSIVE RequestLoop(_, _, _, _)
RequestLoop(max_retries, session, attempt, st) ==
    IF attempt > LastAttempt(max_retries)
    THEN [raised |-> TRUE, value |-> st.last_exception,
          attempts |-> attempt - 1, waits |-> st.waits]
    ELSE LET a == session[attempt]
             status == raise_for_status(a)
         IN  IF a.kind = "exception"
             THEN IF a.exc \in {"requests.ConnectionError", "requests.Timeout"}
                  THEN RequestLoop(max_retries, session, attempt + 1,
                                   [last_exception |-> AuditError("AuditConnectionError", <<>>),
                                    waits |-> Append(st.waits, 2 ^ (attempt - 1))])
                  ELSE [raised |-> TRUE, value |-> AuditError(a.exc, <<>>),
                        attempts |-> attempt, waits |-> st.waits]
             ELSE IF ~status.raised
             THEN [raised |-> FALSE, value |-> a, attempts |-> attempt, waits |-> st.waits]
             ELSE IF status.value.name = "AuditRateLimitError"
             THEN RequestLoop(max_retries, session, attempt + 1,
                              [last_exception |-> status.value,
                               waits |-> Append(st.waits,
                                                RateLimitWait(status.value.retry_after, attempt))])
             ELSE [raised |-> TRUE, value |-> status.value,
                   attempts |-> attempt, waits |-> st.waits]

\* _request(method, url, **kwargs) of a client with the given max_retries.
request(max_retries, session) ==
    RequestLoop(max_retries, session, 1,
                [last_exception |-> AuditError("None", <<>>), waits |-> <<>>])

(***************************************************************************)
(* tools/remediation.py                                                    *)
(***************************************************************************)
\* CHECK_REGISTRY: check name -> check function and recommended action.
CHECK_REGISTRY ==
    [orphan_cis |->
        [fn |-> "check_orphan_compliance",
         action |-> "Review orphan CIs and either create relationships or decommission"],
     stale_records |->
        [fn |-> "check_stale_compliance",
         action |-> "Update stale CI records or mark as retired if no longer valid"],
     duplicate_cis |->
        [fn |-> "check_duplicate_compliance",
         action |-> "Merge or deduplicate CIs with matching name and class"],
     missing_ip_address |->
        [fn |-> "check_missing_field_compliance",
         action |-> "Populate IP address field on server CIs or run discovery"],
     stale_discovery_schedules |->
        [fn |-> "check_stale_schedules",
         action |-> "Review and re-enable stale discovery schedules"],
     pattern_coverage |->
        [fn |-> "check_pattern_coverage",
         action |-> "Add more discovery patterns to improve coverage"],
     ci_reconciliation |->
        [fn |-> "check_ci_reconciliation",
         action |-> "Run discovery or manually set discovery_source on unreconciled CIs"],
     license_overallocation |->
        [fn |-> "check_license_overallocation",
         action |-> "Reduce installed count or procure additional licenses"],
     expired_hardware |->
        [fn |-> "check_expired_hardware",
         action |-> "Plan hardware refresh for end-of-life assets"],
     unassigned_assets |->
        [fn |-> "check_unassigned_assets",
         action |-> "Assign active assets to responsible users or teams"]]

Registered(check_name) == check_name \in DOMAIN CHECK_REGISTRY

\* target_sys_ids is kept as a token, as details of an AuditCheck is.
RemediationItem(id, check_name, priority, action, target_sys_ids, status, notes) ==
    [id |-> id, check_name |-> check_name, priority |-> priority,
     action |-> action, target_sys_ids |-> target_sys_ids,
     status |-> status, notes |-> notes]

RemediationPlan(id, audit_result_id, items, status, progress_pct) ==
    [id |-> id, audit_result_id |-> audit_result_id, items |-> items,
     status |-> status, progress_pct |-> progress_pct]

\* The item create_remediation_plan builds for a failing check; k counts the
\* items built so far and stands for the item's fresh uuid.
ItemFor(check, plan_id, k) ==
    RemediationItem(<<plan_id, k>>, check.name, check.severity,
                    IF Registered(check.name) THEN CHECK_REGISTRY[check.name].action
                    ELSE "Remediate: {check.description}",
                    "affected_sys_ids[:50]", "pending", <<"", "">>)

\* The loop of create_remediation_plan over the first n checks.
RECURSIVE FailedItems(_, _, _)
FailedItems(checks_, plan_id, n) ==
    IF n = 0 THEN <<>>
    ELSE LET before == FailedItems(checks_, plan_id, n - 1)
         IN  IF checks_[n].status # "fail" THEN before
             ELSE Append(before, ItemFor(checks_[n], plan_id, Len(before) + 1))

priority_order == [critical |-> 0, high |-> 1, medium |-> 2, low |-> 3]

\* An unstable sort: an item goes before the items of its own priority.
RECURSIVE InsertItem_Unstable(_, _)
InsertItem_Unstable(sorted, item) ==
    IF sorted = <<>> THEN <<item>>
    ELSE LET last == sorted[Len(sorted)]
         IN  IF priority_order[last.priority] < priority_order[item.priority]
             THEN Append(sorted, item)
             ELSE Append(InsertItem_Unstable(SubSeq(sorted, 1, Len(sorted) - 1), item), last)

\* list.sort(key=...): a stable sort, here by insertion from the left.
RECURSIVE InsertItem(_, _)
InsertItem(sorted, item) ==
    IF sorted = <<>> THEN <<item>>
    ELSE LET last == sorted[Len(sorted)]
         IN  IF priority_order[last.priority] <= priority_order[item.priority]
             THEN Append(sorted, item)
             ELSE Append(InsertItem(SubSeq(sorted, 1, Len(sorted) - 1), item), last)

RECURSIVE SortItems(_, _)
SortItems(items, n) ==
    IF n = 0 THEN <<>> ELSE InsertItem(SortItems(items, n - 1), items[n])

\* storage.load_audit_result / load_remediation_plan: the file exists.
Stored(store, id) == id \in 1..Len(store)

\* create_remediation_plan(storage, audit_id); plan_id stands for the fresh
\* uuid of the plan.
create_remediation_plan(audits_, audit_id, plan_id) ==
    IF ~Stored(audits_, audit_id) THEN Raise(RemediationPlan(plan_id, audit_id, <<>>, "empty", 0))
    ELSE LET unsorted == FailedItems(audits_[audit_id].checks, plan_id,
                                     Len(audits_[audit_id].checks))
             items == SortItems(unsorted, Len(unsorted))
         IN  Return(RemediationPlan(plan_id, audit_id, items,
                                    IF Len(items) > 0 THEN "active" ELSE "empty", 0))

CountItems(items, status) == Len(SelectSeq(items, LAMBDA i : i.status = status))

\* round((done / total * 100) if total > 0 else 0.0, 2)
ProgressPct(items) ==
    IF Len(items) > 0 THEN Round2(Frac(CountItems(items, "done") * 100, Len(items))) ELSE 0

\* Completion that counts the done items only.
AutoComplete_DoneOnly(plan) ==
    IF Len(plan.items) > 0 /\ CountItems(plan.items, "done") = Len(plan.items)
    THEN [plan EXCEPT !.status = "completed"]
    ELSE plan

\* if total > 0 and (done + skipped) == total: plan.status = "completed"
AutoComplete(plan) ==
    IF Len(plan.items) > 0
       /\ CountItems(plan.items, "done") + CountItems(plan.items, "skipped") = Len(plan.items)
    THEN [plan EXCEPT !.status = "completed"]
    ELSE plan

\* A tracker that also prunes the skipped items from the plan it saves.
TrackedPlan_DropSkipped(plan) ==
    LET kept == SelectSeq(plan.items, LAMBDA i : i.status # "skipped")
    IN  AutoComplete([plan EXCEPT !.items = kept, !.progress_pct = ProgressPct(kept)])

\* The plan as track_remediation_progress saves it.
TrackedPlan(plan) == AutoComplete([plan EXCEPT !.progress_pct = ProgressPct(plan.items)])

\* track_remediation_progress(storage, plan_id): the plan saved and the dict
\* returned.
track_remediation_progress(plans_, plan_id) ==
    IF ~Stored(plans_, plan_id) THEN [raised |-> TRUE, saved |-> FALSE]
    ELSE LET plan == TrackedPlan(plans_[plan_id])
         IN  [raised |-> FALSE, saved |-> TRUE, plan |-> plan,
              value |-> [plan_id |-> plan.id,
                         audit_result_id |-> plan.audit_result_id,
                         status |-> plan.status,
                         progress_pct |-> plan.progress_pct,
                         total_items |-> Len(plan.items),
                         done |-> CountItems(plan.items, "done"),
                         in_progress |-> CountItems(plan.items, "in_progress"),
                         pending |-> CountItems(plan.items, "pending"),
                         skipped |-> CountItems(plan.items, "skipped"),
                         items |-> plan.items]]

\* A lookup that falls back on the first item of the plan.
FindItem_OrFirst(items, item_id) ==
    IF \E i \in 1..Len(items) : items[i].id = item_id
    THEN CHOOSE i \in 1..Len(items) :
            /\ items[i].id = item_id
            /\ \A j \in 1..(i - 1) : items[j].id # item_id
    ELSE IF Len(items) > 0 THEN 1 ELSE 0

\* The position of the first item of the plan with this id, 0 when none.
FindItem(items, item_id) ==
    IF \E i \in 1..Len(items) : items[i].id = item_id
    THEN CHOOSE i \in 1..Len(items) :
            /\ items[i].id = item_id
            /\ \A j \in 1..(i - 1) : items[j].id # item_id
    ELSE 0

\* Validation that takes every fresh status but fail for a fix.
ValidatedItem_NotFailIsFixed(item, new_check) ==
    IF new_check.status # "fail"
    THEN [item EXCEPT !.status = "done", !.notes = <<"Validated: check now passes", "">>]
    ELSE [item EXCEPT !.notes = <<"Validation failed: ", new_check.details>>]

\* The item after validation: done with a confirmation note when the fresh
\* check passes, else only a note with the fresh details.
ValidatedItem(item, new_check) ==
    IF new_check.status = "pass"
    THEN [item EXCEPT !.status = "done", !.notes = <<"Validated: check now passes", "">>]
    ELSE [item EXCEPT !.notes = <<"Validation failed: ", new_check.details>>]

\* Validation without the completion test.
ValidatedPlan_NoComplete(plan, pos, new_check) ==
    LET items == [plan.items EXCEPT ![pos] = ValidatedItem(plan.items[pos], new_check)]
    IN  [plan EXCEPT !.items = items, !.progress_pct = ProgressPct(items)]

\* Validation that keeps the progress it loaded.
ValidatedPlan_StaleProgress(plan, pos, new_check) ==
    LET items == [plan.items EXCEPT ![pos] = ValidatedItem(plan.items[pos], new_check)]
    IN  AutoComplete([plan EXCEPT !.items = items])

\* The plan as validate_compliance_fix saves it.
ValidatedPlan(plan, pos, new_check) ==
    LET items == [plan.items EXCEPT ![pos] = ValidatedItem(plan.items[pos], new_check)]
    IN  AutoComplete([plan EXCEPT !.items = items, !.progress_pct = ProgressPct(items)])

\* validate_compliance_fix(config, client, storage, plan_id, item_id); reply
\* is what the data source answers to the check that is run again.
validate_compliance_fix(plans_, plan_id, item_id, reply) ==
    IF ~Stored(plans_, plan_id) THEN [raised |-> TRUE, saved |-> FALSE, called |-> <<>>]
    ELSE
    LET plan == plans_[plan_id]
        pos == FindItem(plan.items, item_id)
    IN  IF pos = 0
        THEN [raised |-> FALSE, saved |-> FALSE, called |-> <<>>,
              value |-> [status |-> "error", message |-> "Item not found in plan"]]
        ELSE IF ~Registered(plan.items[pos].check_name)
        THEN [raised |-> FALSE, saved |-> FALSE, called |-> <<>>,
              value |-> [status |-> "error", message |-> "No check function registered"]]
        ELSE
        LET fname == CHECK_REGISTRY[plan.items[pos].check_name].fn
            new_check == run_check(CheckFn(fname, CallCheck(fname, reply)))
        IN  IF new_check.raised
            THEN [raised |-> TRUE, saved |-> FALSE, called |-> <<fname>>]
            ELSE [raised |-> FALSE, saved |-> TRUE, called |-> <<fname>>,
                  plan |-> ValidatedPlan(plan, pos, new_check.value),
                  value |-> [plan_id |-> plan_id,
                             item_id |-> item_id,
                             check_name |-> plan.items[pos].check_name,
                             previous_status |-> "fail",
                             new_status |-> new_check.value.status,
                             is_fixed |-> new_check.value.status = "pass",
                             details |-> new_check.value.details]]

(***************************************************************************)
(* tools/history.py: compare_audits                                        *)
(***************************************************************************)
\* A set of failed names that takes in every check that did not pass.
failed_names_NotPass(result) ==
    {result.checks[i].name : i \in {j \in 1..Len(result.checks) : result.checks[j].status # "pass"}}

\* {c.name for c in result.checks if c.status == "fail"}
failed_names(result) ==
    {result.checks[i].name : i \in {j \in 1..Len(result.checks) : result.checks[j].status = "fail"}}

\* result.score.overall_score if result.score else 0.0
overall_of(result) == IF result.score = NoScore THEN 0 ELSE result.score.overall_score

\* round(score_2 - score_1, 2), in hundredths; round is symmetric about 0.
score_delta_of(score_1, score_2) ==
    IF score_2 >= score_1 THEN Round2(Hundredths(score_2 - score_1))
    ELSE 0 - Round2(Hundredths(score_1 - score_2))

\* A trend that has no stable case.
trend_of_NoStable(score_delta) ==
    IF score_delta >= 0 THEN "improving" ELSE "declining"

\* "improving" if score_delta > 0 else "declining" if score_delta < 0 else "stable"
trend_of(score_delta) ==
    IF score_delta > 0 THEN "improving"
    ELSE IF score_delta < 0 THEN "declining"
    ELSE "stable"

\* compare_audits(storage, audit_id_1, audit_id_2).  The three findings are
\* sorted lists of the names of a set; a set stands for its sorted list.
compare_audits(audits_, audit_id_1, audit_id_2) ==
    IF ~Stored(audits_, audit_id_1) \/ ~Stored(audits_, audit_id_2) THEN Raise(<<>>)
    ELSE
    LET result_1 == audits_[audit_id_1]
        result_2 == audits_[audit_id_2]
        score_1 == overall_of(result_1)
        score_2 == overall_of(result_2)
        score_delta == score_delta_of(score_1, score_2)
        failed_1 == failed_names(result_1)
        failed_2 == failed_names(result_2)
    IN  Return([audit_id_1 |-> audit_id_1,
                audit_id_2 |-> audit_id_2,
                score_1 |-> score_1,
                score_2 |-> score_2,
                score_delta |-> score_delta,
                trend |-> trend_of(score_delta),
                new_findings |-> failed_2 \ failed_1,
                resolved_findings |-> failed_1 \ failed_2,
                persistent_findings |-> failed_1 \cap failed_2,
                checks_count_1 |-> Len(result_1.checks),
                checks_count_2 |-> Len(result_2.checks)])

(***************************************************************************)
(* storage.py: AuditStorage.  A directory is the sequence of its files,    *)
(* the file <id>.json at position id; a file is its JSON document and,     *)
(* for the history directory, its st_mtime.  A JSON document is a record   *)
(* tagged json: an object with its members, or text that is no object.     *)
(***************************************************************************)
\* An AuditResult object: the fields of the result and its id.
AuditEntity(id, result) ==
    [id |-> id, audit_type |-> result.audit_type, completed_at |-> result.completed_at,
     checks |-> result.checks, score |-> result.score, status |-> result.status,
     summary |-> result.summary]

\* result.model_dump_json(): None becomes null, a score an object.
audit_dump_json(result) ==
    [json |-> "object",
     id |-> result.id,
     audit_type |-> result.audit_type,
     completed_at |-> IF result.completed_at = "None" THEN "null" ELSE result.completed_at,
     checks |-> result.checks,
     score |-> IF result.score = NoScore THEN <<>> ELSE <<result.score>>,
     status |-> result.status,
     summary |-> result.summary]

\* A validation that leaves status at its default.
audit_validate_json_DefaultStatus(doc) ==
    [id |-> doc.id,
     audit_type |-> doc.audit_type,
     completed_at |-> IF doc.completed_at = "null" THEN "None" ELSE doc.completed_at,
     checks |-> doc.checks,
     score |-> IF doc.score = <<>> THEN NoScore ELSE doc.score[1],
     status |-> "running",
     summary |-> doc.summary]

\* AuditResult.model_validate_json(text) of a document written by
\* model_dump_json.
audit_validate_json(doc) ==
    [id |-> doc.id,
     audit_type |-> doc.audit_type,
     completed_at |-> IF doc.completed_at = "null" THEN "None" ELSE doc.completed_at,
     checks |-> doc.checks,
     score |-> IF doc.score = <<>> THEN NoScore ELSE doc.score[1],
     status |-> doc.status,
     summary |-> doc.summary]

\* plan.model_dump_json()
plan_dump_json(plan) ==
    [json |-> "object", id |-> plan.id, audit_result_id |-> plan.audit_result_id,
     items |-> plan.items, status |-> plan.status, progress_pct |-> plan.progress_pct]

\* RemediationPlan.model_validate_json(text)
plan_validate_json(doc) ==
    RemediationPlan(doc.id, doc.audit_result_id, doc.items, doc.status, doc.progress_pct)

\* file_path.write_text(...) on <id>.json: the file is replaced when it
\* exists and created otherwise; ids are numbered in the order of their
\* first save.
write_text(dir, id, file) ==
    IF id \in 1..Len(dir) THEN [dir EXCEPT ![id] = file] ELSE Append(dir, file)

\* save_audit_result(result), the write being stamped with the time mtime.
save_audit_result(history, result, mtime) ==
    write_text(history, result.id, [doc |-> audit_dump_json(result), mtime |-> mtime])

\* load_audit_result(audit_id)
load_audit_result(history, audit_id) ==
    IF ~Stored(history, audit_id) THEN Raise("FileNotFoundError")
    ELSE Return(audit_validate_json(history[audit_id].doc))

\* save_remediation_plan(plan)
save_remediation_plan(remediation, plan) ==
    write_text(remediation, plan.id, [doc |-> plan_dump_json(plan)])

\* load_remediation_plan(plan_id)
load_remediation_plan(remediation, plan_id) ==
    IF ~Stored(remediation, plan_id) THEN Raise("FileNotFoundError")
    ELSE Return(plan_validate_json(remediation[plan_id].doc))

\* data.get(key): the member, or None
DictGet(doc, key) == IF key \in DOMAIN doc THEN doc[key] ELSE "None"

\* The dict list_audit_results appends for a document; no score is -1.
Summary(doc) ==
    [id |-> doc.id,
     audit_type |-> doc.audit_type,
     completed_at |-> DictGet(doc, "completed_at"),
     status |-> DictGet(doc, "status"),
     overall_score |-> IF "score" \in DOMAIN doc /\ doc.score # <<>>
                       THEN doc.score[1].overall_score ELSE NoScore.overall_score]

\* A loop that stops after limit files, whether they matched or not.
ListStep_LimitFirst(st, doc, examined, audit_type, limit) ==
    IF st.raised \/ examined >= limit THEN st
    ELSE IF doc.json = "invalid" THEN st
    ELSE IF doc.json # "object" THEN [st EXCEPT !.raised = TRUE]
    ELSE IF audit_type # "None" /\ DictGet(doc, "audit_type") # audit_type THEN st
    ELSE IF "id" \notin DOMAIN doc \/ "audit_type" \notin DOMAIN doc THEN st
    ELSE [st EXCEPT !.results = Append(st.results, Summary(doc))]

\* One pass of the loop of list_audit_results over the file doc, from the
\* loop state st; examined is the number of files the loop has passed.
ListStep(st, doc, examined, audit_type, limit) ==
    IF st.raised \/ Len(st.results) >= limit THEN st
    ELSE IF doc.json = "invalid" THEN st
    ELSE IF doc.json # "object" THEN [st EXCEPT !.raised = TRUE]
    ELSE IF audit_type # "None" /\ DictGet(doc, "audit_type") # audit_type THEN st
    ELSE IF "id" \notin DOMAIN doc \/ "audit_type" \notin DOMAIN doc THEN st
    ELSE [st EXCEPT !.results = Append(st.results, Summary(doc))]

\* The loop of list_audit_results over the first k files of the sorted list.
RECURSIVE ListLoop(_, _, _, _, _)
ListLoop(history, files, k, audit_type, limit) ==
    IF k = 0 THEN [raised |-> FALSE, results |-> <<>>]
    ELSE ListStep(ListLoop(history, files, k - 1, audit_type, limit),
                  history[files[k]].doc, k - 1, audit_type, limit)

\* sorted(glob("*.json"), key=st_mtime, reverse=True): glob gives the files
\* in any order and the sort is stable, so files of equal st_mtime come in
\* any order.
SortedFiles(history) ==
    {files \in [1..Len(history) -> 1..Len(history)] :
        /\ \A i, j \in 1..Len(history) : i # j => files[i] # files[j]
        /\ \A i, j \in 1..Len(history) :
              i < j => history[files[i]].mtime >= history[files[j]].mtime}

\* list_audit_results(audit_type, limit), files being the sorted list.
list_audit_results(history, files, audit_type, limit) ==
    LET st == ListLoop(history, files, Len(files), audit_type, limit)
    IN  IF st.raised THEN Raise(<<>>) ELSE Return(st.results)

(***************************************************************************)
(* tools/reports.py                                                        *)
(***************************************************************************)
\* grade and risk_level of _build_report for a score in hundredths.
GradeOf(score_val) ==
    IF score_val >= 9000 THEN <<"A", "low">>
    ELSE IF score_val >= 7500 THEN <<"B", "moderate">>
    ELSE IF score_val >= 6000 THEN <<"C", "elevated">>
    ELSE IF score_val >= 4000 THEN <<"D", "high">>
    ELSE <<"F", "critical">>

\* findings_by_severity[severity]: the failed checks of the severity, in
\* list order.
FindingsOf(checks_, severity) ==
    LET failed == SelectSeq(checks_, LAMBDA c : c.status = "fail" /\ c.severity = severity)
    IN  [i \in 1..Len(failed) |-> [name |-> failed[i].name, details |-> failed[i].details]]

\* recommendations: one token for each sentence appended.
Recommendations(findings, score_val, total_findings) ==
    (IF Len(findings["critical"]) > 0 THEN <<"critical findings">> ELSE <<>>)
    \o (IF Len(findings["high"]) > 0 THEN <<"high findings">> ELSE <<>>)
    \o (IF score_val < 7500 THEN <<"remediation review">> ELSE <<>>)
    \o (IF total_findings = 0 THEN <<"maintain">> ELSE <<>>)

\* _build_report(result) of an AuditResult object.
build_report(result) ==
    LET findings_by_severity == [s \in CheckSeverity |-> FindingsOf(result.checks, s)]
        total_findings ==
            Len(findings_by_severity["critical"]) + Len(findings_by_severity["high"])
            + Len(findings_by_severity["medium"]) + Len(findings_by_severity["low"])
        score_val == IF result.score = NoScore THEN 0 ELSE result.score.overall_score
    IN  [audit_id |-> result.id,
         audit_type |-> result.audit_type,
         completed_at |-> result.completed_at,
         executive_summary |->
            [overall_score |-> score_val,
             grade |-> GradeOf(score_val)[1],
             risk_level |-> GradeOf(score_val)[2],
             total_checks |-> Len(result.checks),
             total_findings |-> total_findings,
             summary |-> result.summary],
         score |-> IF result.score = NoScore THEN <<>> ELSE <<result.score>>,
         findings_by_severity |-> findings_by_severity,
         recommendations |-> Recommendations(findings_by_severity, score_val, total_findings)]

\* generate_compliance_report(config, client, storage, audit_id, audit_type,
\* report_format).  audit_id 0 stands for None; fresh_id for the uuid of a
\* fresh audit result; replies for what the data source answers to the
\* check functions of a fresh audit.  The value is the report, audits the
\* storage afterwards.
generate_compliance_report(audits_, audit_id, audit_type, report_format, fresh_id, replies) ==
    IF audit_id # 0
    THEN IF ~Stored(audits_, audit_id)
         THEN [raised |-> TRUE, value |-> "FileNotFoundError", audits |-> audits_,
               called |-> <<>>]
         ELSE [raised |-> FALSE,
               value |-> [report |-> build_report(AuditEntity(audit_id, audits_[audit_id])),
                          format |-> report_format],
               audits |-> audits_,
               called |-> <<>>]
    ELSE LET full == run_full_audit(replies)
             result_dict == audit_dump_json(AuditEntity(fresh_id, full.value))
             result == audit_validate_json(result_dict)
         IN  [raised |-> FALSE,
              value |-> [report |-> build_report(result), format |-> report_format],
              audits |-> Append(audits_, full.value),
              called |-> full.called]

(***************************************************************************)
(* State.                                                                  *)
(***************************************************************************)
VARIABLES
    check_fns,  \* the check functions handed to the engine's run_audit
    checks,     \* the check list handed to the scorer's calculate_score
    audits,     \* storage: history/<id>.json, audits[id] for id in 1..Len(audits)
    plans,      \* storage: remediation/<id>.json, plans[id] for id in 1..Len(plans)
    ret,        \* the last operation: its name, whether it raised, what it returned
    called,     \* the check functions the last operation called, in call order
    written     \* the files the last operation wrote, in write order

vars == <<check_fns, checks, audits, plans, ret, called, written>>

NoReturn == [op |-> "init", raised |-> FALSE, value |-> <<>>]

(***************************************************************************)
(* The engine on its own: run_audit over any list of check functions.      *)
(***************************************************************************)
\* __name__ of the i-th check function and the name of the outcome it returns.
FnNames == <<"check_a", "check_b", "check_c", "check_d", "check_e">>

OutcomeNames == <<"a", "b", "c", "d", "e">>

\* What a check function does when called: it raises, or returns an outcome
\* of some severity whose status is not error.
Behaviours ==
    {[raises |-> TRUE, severity |-> "medium", status |-> "error"]} \cup
    [raises : {FALSE}, severity : CheckSeverity, status : CheckStatus \ {"error"}]

Call(i, b) ==
    IF b.raises THEN Raise(NoCheck)
    ELSE Return(AuditCheck(OutcomeNames[i], b.severity, b.status, "findings"))

\* The lists of n check functions.
CheckFnLists(n) ==
    {[i \in 1..n |-> CheckFn(FnNames[i], Call(i, pick[i]))] : pick \in [1..n -> Behaviours]}

InitEngine ==
    /\ \E n \in 0..MaxFns : check_fns \in CheckFnLists(n)
    /\ checks = <<>>
    /\ audits = <<>>
    /\ plans = <<>>
    /\ ret = NoReturn
    /\ called = <<>>
    /\ written = <<>>

\* engine.run_audit(audit_type, check_fns)
RunAudit ==
    /\ ret.op = "init"
    /\ \E audit_type \in AuditType :
          LET r == run_audit(audit_type, check_fns)
          IN  /\ ret' = [op |-> "run_audit", raised |-> r.raised, value |-> r.value]
              /\ called' = r.called
    /\ UNCHANGED <<check_fns, checks, audits, plans, written>>

NextEngine == RunAudit

SpecEngine == InitEngine /\ [][NextEngine]_vars

(***************************************************************************)
(* The scorer on its own: calculate_score over check lists.                *)
(***************************************************************************)
RECURSIVE Repeat(_, _)
Repeat(x, n) == IF n = 0 THEN <<>> ELSE Append(Repeat(x, n - 1), x)

\* The check list with tally[sev].pass passing and tally[sev].fail failing
\* checks of each severity.
RECURSIVE TallyList(_, _)
TallyList(tally, k) ==
    IF k = 0 THEN <<>>
    ELSE LET sev == SeverityOrder[k]
         IN  TallyList(tally, k - 1)
             \o Repeat(AuditCheck(sev, sev, "pass", ""), tally[sev].pass)
             \o Repeat(AuditCheck(sev, sev, "fail", ""), tally[sev].fail)

Tallies == [CheckSeverity -> [pass : 0..MaxPassed, fail : 0..MaxFailed]]

InitScore ==
    /\ checks \in {TallyList(t, Len(SeverityOrder)) : t \in Tallies}
    /\ check_fns = <<>>
    /\ audits = <<>>
    /\ plans = <<>>
    /\ ret = NoReturn
    /\ called = <<>>
    /\ written = <<>>

\* ComplianceScorer().calculate_score(checks)
CalculateScore ==
    /\ ret.op = "init"
    /\ ret' = [op |-> "calculate_score", raised |-> FALSE, value |-> calculate_score(checks)]
    /\ UNCHANGED <<check_fns, checks, audits, plans, called, written>>

NextScore == CalculateScore

SpecScore == InitScore /\ [][NextScore]_vars

(***************************************************************************)
(* The scorer over short check lists of every severity and status.         *)
(***************************************************************************)
\* The check lists of n checks.
CheckLists(n) ==
    {[i \in 1..n |-> AuditCheck(OutcomeNames[i], pick[i][1], pick[i][2], "")] :
        pick \in [1..n -> CheckSeverity \X CheckStatus]}

InitMixed ==
    /\ \E n \in 0..MaxChecks : checks \in CheckLists(n)
    /\ check_fns = <<>>
    /\ audits = <<>>
    /\ plans = <<>>
    /\ ret = NoReturn
    /\ called = <<>>
    /\ written = <<>>

SpecMixed == InitMixed /\ [][NextScore]_vars

(***************************************************************************)
(* The remediation tools over a stored audit result.                       *)
(***************************************************************************)
\* What the data source can answer to a check function.
RateReplies ==
    {Reply(TRUE, 0, 0)} \cup
    UNION {{Reply(FALSE, t, f) : f \in 0..t} : t \in 0..MaxRecords}

CountReplies(most) == {Reply(TRUE, 0, 0)} \cup {Reply(FALSE, 0, f) : f \in 0..most}

Replies(fname) ==
    IF fname \in {CmdbChecks[i] : i \in 1..Len(CmdbChecks)} THEN RateReplies
    ELSE IF fname = "check_pattern_coverage" THEN CountReplies(MaxPatterns)
    ELSE CountReplies(MaxRecords)

\* The audit results the three domain runners store.
StoredAudits ==
    {run_domain_audit("cmdb", CmdbChecks, r).value : r \in [1..4 -> RateReplies]}
    \cup {run_domain_audit("discovery", DiscoveryChecks, <<a, b, c>>).value :
            a \in CountReplies(MaxRecords), b \in CountReplies(MaxPatterns),
            c \in CountReplies(MaxRecords)}
    \cup {run_domain_audit("asset", AssetChecks, r).value : r \in [1..3 -> CountReplies(MaxRecords)]}

\* The plan remediation_create makes from the stored audit result a.
CreatedPlan(a) == create_remediation_plan(<<a>>, 1, 1).value

\* The storage after a domain runner saved its audit result and
\* remediation_create made the plan for it.
Init ==
    /\ \E a \in StoredAudits :
          /\ audits = <<a>>
          /\ plans = <<CreatedPlan(a)>>
    /\ check_fns = <<>>
    /\ checks = <<>>
    /\ ret = NoReturn
    /\ called = <<>>
    /\ written = <<>>

PlanFile(plan_id) == [dir |-> "remediation", id |-> plan_id]

\* The ids a caller may pass: those of the stored entities and one more.
Ids(store) == 1..(Len(store) + 1)

\* remediation_create(audit_id)
CreatePlan(audit_id) ==
    /\ Len(plans) < MaxPlans
    /\ LET plan_id == Len(plans) + 1
           r == create_remediation_plan(audits, audit_id, plan_id)
       IN  IF r.raised
           THEN /\ ret' = [op |-> "create_plan", raised |-> TRUE, value |-> <<>>]
                /\ written' = <<>>
                /\ UNCHANGED plans
           ELSE /\ plans' = Append(plans, r.value)
                /\ ret' = [op |-> "create_plan", raised |-> FALSE, value |-> r.value]
                /\ written' = <<PlanFile(plan_id)>>
    /\ called' = <<>>
    /\ UNCHANGED <<check_fns, checks, audits>>

\* remediation_progress(plan_id)
TrackProgress(plan_id) ==
    /\ LET r == track_remediation_progress(plans, plan_id)
       IN  IF r.raised
           THEN /\ ret' = [op |-> "track_progress", raised |-> TRUE, value |-> <<>>]
                /\ written' = <<>>
                /\ UNCHANGED plans
           ELSE /\ plans' = [plans EXCEPT ![plan_id] = r.plan]
                /\ ret' = [op |-> "track_progress", raised |-> FALSE, value |-> r.value]
                /\ written' = <<PlanFile(plan_id)>>
    /\ called' = <<>>
    /\ UNCHANGED <<check_fns, checks, audits>>

\* The item ids a caller may pass for a plan: those of its items and one
\* that no item has.
ItemIds(plan_id) ==
    {<<plan_id, 0>>} \cup
    (IF Stored(plans, plan_id)
     THEN {plans[plan_id].items[i].id : i \in 1..Len(plans[plan_id].items)}
     ELSE {})

\* What the data source may answer while the item's check is run again.
RepliesFor(plan_id, item_id) ==
    LET pos == IF Stored(plans, plan_id) THEN FindItem(plans[plan_id].items, item_id) ELSE 0
    IN  IF pos > 0 /\ Registered(plans[plan_id].items[pos].check_name)
        THEN Replies(CHECK_REGISTRY[plans[plan_id].items[pos].check_name].fn)
        ELSE {Reply(FALSE, 0, 0)}

\* remediation_validate(plan_id, item_id)
ValidateFix(plan_id, item_id, reply) ==
    /\ LET r == validate_compliance_fix(plans, plan_id, item_id, reply)
       IN  /\ ret' = [op |-> "validate_fix", raised |-> r.raised,
                      value |-> IF r.raised THEN <<>> ELSE r.value]
           /\ called' = r.called
           /\ IF r.saved
              THEN /\ plans' = [plans EXCEPT ![plan_id] = r.plan]
                   /\ written' = <<PlanFile(plan_id)>>
              ELSE /\ written' = <<>>
                   /\ UNCHANGED plans
    /\ UNCHANGED <<check_fns, checks, audits>>

Next ==
    \/ \E plan_id \in Ids(plans) : TrackProgress(plan_id)
    \/ \E plan_id \in Ids(plans) : \E item_id \in ItemIds(plan_id) :
          \E reply \in RepliesFor(plan_id, item_id) : ValidateFix(plan_id, item_id, reply)

Spec == Init /\ [][Next]_vars

(***************************************************************************)
(* The remediation tools over a plan whose item statuses a collaborator    *)
(* has set: the model RemediationItem admits pending, in_progress, done    *)
(* and skipped, and storage.save_remediation_plan stores any plan.         *)
(***************************************************************************)
WithStatuses(plan, statuses) ==
    [plan EXCEPT !.items = [i \in 1..Len(plan.items) |->
                                [plan.items[i] EXCEPT !.status = statuses[i]]]]

InitStore ==
    /\ \E a \in StoredAudits :
          /\ audits = <<a>>
          /\ \E statuses \in [1..Len(CreatedPlan(a).items) -> RemediationItemStatus] :
                plans = <<WithStatuses(CreatedPlan(a), statuses)>>
    /\ check_fns = <<>>
    /\ checks = <<>>
    /\ ret = NoReturn
    /\ called = <<>>
    /\ written = <<>>

SpecStore == InitStore /\ [][Next]_vars

(***************************************************************************)
(* remediation_create over the audit results the engine can produce.       *)
(***************************************************************************)
\* The storage holds one audit result: what engine.run_audit returned for
\* some list of check functions.
InitPlan ==
    /\ \E n \in 0..MaxFns : \E fns \in CheckFnLists(n) : \E audit_type \in AuditType :
          audits = <<run_audit(audit_type, fns).value>>
    /\ plans = <<>>
    /\ check_fns = <<>>
    /\ checks = <<>>
    /\ ret = NoReturn
    /\ called = <<>>
    /\ written = <<>>

NextPlan == \E audit_id \in Ids(audits) : CreatePlan(audit_id)

SpecPlan == InitPlan /\ [][NextPlan]_vars

(***************************************************************************)
(* The audit runners over an empty storage.                                *)
(***************************************************************************)
HistoryFile(audit_id) == [dir |-> "history", id |-> audit_id]

\* The arguments audit_cmdb may get for severity_filter.
SeverityFilters == {"None", "", "critical", "high", "medium", "low", "urgent"}

\* What the data source answers to a check function, one reply for each
\* thing the function can do with it: a fault, no violating record, or a
\* violating record; for the pattern count none, one or threshold patterns.
FullReplies(fname) ==
    IF fname = "check_pattern_coverage"
    THEN {Reply(TRUE, 0, 0), Reply(FALSE, 0, 0), Reply(FALSE, 0, 1), Reply(FALSE, 0, threshold)}
    ELSE {Reply(TRUE, 0, 0), Reply(FALSE, 1, 0), Reply(FALSE, 1, 1)}

InitAudit ==
    /\ audits = <<>>
    /\ plans = <<>>
    /\ check_fns = <<>>
    /\ checks = <<>>
    /\ ret = NoReturn
    /\ called = <<>>
    /\ written = <<>>

\* A runner called with args after its engine call r over the list fns: it
\* saves the result under a fresh id and returns it.
SaveAndReturn(op, args, fns, r) ==
    /\ check_fns' = fns
    /\ called' = r.called
    /\ IF r.raised
       THEN /\ ret' = [op |-> op, args |-> args, raised |-> TRUE, value |-> <<>>]
            /\ written' = <<>>
            /\ UNCHANGED audits
       ELSE /\ ret' = [op |-> op, args |-> args, raised |-> FALSE, value |-> r.value]
            /\ audits' = Append(audits, r.value)
            /\ written' = <<HistoryFile(Len(audits) + 1)>>
    /\ UNCHANGED <<checks, plans>>

\* audit_cmdb(severity_filter)
RunCmdbAudit(severity_filter, replies) ==
    SaveAndReturn("run_cmdb_audit", <<severity_filter>>, Lambdas(filtered_fns(severity_filter), replies),
                  run_cmdb_audit(severity_filter, replies))

\* audit_discovery()
RunDiscoveryAudit(replies) ==
    SaveAndReturn("run_discovery_audit", <<>>, Lambdas(DiscoveryChecks, replies),
                  run_domain_audit("discovery", DiscoveryChecks, replies))

\* audit_assets()
RunAssetAudit(replies) ==
    SaveAndReturn("run_asset_audit", <<>>, Lambdas(AssetChecks, replies),
                  run_domain_audit("asset", AssetChecks, replies))

\* audit_full()
RunFullAudit(replies) ==
    SaveAndReturn("run_full_audit", <<>>, Lambdas(all_check_fns, replies), run_full_audit(replies))

\* The replies to the first n functions of the list fnames, one each; full
\* says whether they are drawn from FullReplies or from Replies.
RECURSIVE ReplyLists(_, _, _)
ReplyLists(fnames, n, full) ==
    IF n = 0 THEN {<<>>}
    ELSE {Append(r, x) : r \in ReplyLists(fnames, n - 1, full),
                         x \in IF full THEN FullReplies(fnames[n]) ELSE Replies(fnames[n])}

\* Each behaviour is one run of one runner.
NextAudit ==
    \/ /\ ret.op = "init"
       /\ \E severity_filter \in SeverityFilters :
             \E replies \in ReplyLists(filtered_fns(severity_filter),
                                       Len(filtered_fns(severity_filter)), FALSE) :
                 RunCmdbAudit(severity_filter, replies)
    \/ /\ ret.op = "init"
       /\ \E replies \in ReplyLists(DiscoveryChecks, Len(DiscoveryChecks), FALSE) :
             RunDiscoveryAudit(replies)
    \/ /\ ret.op = "init"
       /\ \E replies \in ReplyLists(AssetChecks, Len(AssetChecks), FALSE) :
             RunAssetAudit(replies)
    \/ /\ ret.op = "init"
       /\ \E replies \in ReplyLists(all_check_fns, Len(all_check_fns), TRUE) :
             RunFullAudit(replies)

SpecAudit == InitAudit /\ [][NextAudit]_vars

(***************************************************************************)
(* audit_compare over two stored audit results of the domain runners.      *)
(***************************************************************************)
\* The audit results of the three domain runners, one for each way its
\* checks can raise, pass and fail.
ComparedAudits ==
    {run_domain_audit("cmdb", CmdbChecks, r).value :
        r \in ReplyLists(CmdbChecks, Len(CmdbChecks), TRUE)}
    \cup {run_domain_audit("discovery", DiscoveryChecks, r).value :
            r \in ReplyLists(DiscoveryChecks, Len(DiscoveryChecks), TRUE)}
    \cup {run_domain_audit("asset", AssetChecks, r).value :
            r \in ReplyLists(AssetChecks, Len(AssetChecks), TRUE)}

InitHistory ==
    /\ \E a \in ComparedAudits : \E b \in ComparedAudits : audits = <<a, b>>
    /\ plans = <<>>
    /\ check_fns = <<>>
    /\ checks = <<>>
    /\ ret = NoReturn
    /\ called = <<>>
    /\ written = <<>>

\* audit_compare(audit_id_1, audit_id_2)
Compare(audit_id_1, audit_id_2) ==
    /\ LET r == compare_audits(audits, audit_id_1, audit_id_2)
       IN  ret' = [op |-> "compare", raised |-> r.raised, value |-> r.value]
    /\ called' = <<>>
    /\ written' = <<>>
    /\ UNCHANGED <<check_fns, checks, audits, plans>>

NextHistory == \E audit_id_1 \in Ids(audits) : \E audit_id_2 \in Ids(audits) : Compare(audit_id_1, audit_id_2)

SpecHistory == InitHistory /\ [][NextHistory]_vars

(***************************************************************************)
(* The storage on its own: saves, loads and listings.  Here audits is the  *)
(* history directory and plans the remediation directory, file by file.    *)
(***************************************************************************)
\* The audit results a caller saves: one as constructed, without score and
\* completed_at, one that passed, one with a failure and an error.
SaveableResults ==
    {RunningResult("cmdb"),
     run_domain_audit("discovery", DiscoveryChecks,
                      <<Reply(FALSE, 0, 0), Reply(FALSE, 0, threshold), Reply(FALSE, 0, 0)>>).value,
     run_domain_audit("asset", AssetChecks,
                      <<Reply(TRUE, 0, 0), Reply(FALSE, 0, 1), Reply(FALSE, 0, 0)>>).value}

\* The plans a caller saves under the id plan_id: an empty one, an active
\* one and a completed one.
SaveablePlans(plan_id) ==
    LET active == RemediationPlan(plan_id, 1,
                      <<ItemFor(check_expired_hardware(Reply(FALSE, 0, 1)).value, plan_id, 1)>>,
                      "active", 0)
    IN  {RemediationPlan(plan_id, 1, <<>>, "empty", 0),
         active,
         ValidatedPlan(active, 1, check_expired_hardware(Reply(FALSE, 0, 0)).value)}

InitStorage ==
    /\ audits = <<>>
    /\ plans = <<>>
    /\ check_fns = <<>>
    /\ checks = <<>>
    /\ ret = NoReturn
    /\ called = <<>>
    /\ written = <<>>

\* st_mtime of the newest file of the history directory, 0 when empty.
Newest(history) ==
    IF Len(history) = 0 THEN 0
    ELSE CHOOSE t \in {history[i].mtime : i \in 1..Len(history)} :
            \A i \in 1..Len(history) : history[i].mtime <= t

\* The times a write can be stamped with: the clock does not run backwards
\* and need not have advanced since the last write.
WriteTimes(history) == {t \in 1..MaxClock : Newest(history) <= t /\ t <= Newest(history) + 1}

\* storage.save_audit_result(result)
SaveAuditResult(result, mtime) ==
    /\ audits' = save_audit_result(audits, result, mtime)
    /\ ret' = [op |-> "save_audit_result", raised |-> FALSE, value |-> result.id]
    /\ written' = <<HistoryFile(result.id)>>
    /\ called' = <<>>
    /\ UNCHANGED <<check_fns, checks, plans>>

\* storage.load_audit_result(audit_id)
LoadAuditResult(audit_id) ==
    /\ LET r == load_audit_result(audits, audit_id)
       IN  ret' = [op |-> "load_audit_result", raised |-> r.raised, value |-> r.value]
    /\ written' = <<>>
    /\ called' = <<>>
    /\ UNCHANGED <<check_fns, checks, audits, plans>>

\* storage.save_remediation_plan(plan)
SaveRemediationPlan(plan) ==
    /\ plans' = save_remediation_plan(plans, plan)
    /\ ret' = [op |-> "save_remediation_plan", raised |-> FALSE, value |-> plan.id]
    /\ written' = <<PlanFile(plan.id)>>
    /\ called' = <<>>
    /\ UNCHANGED <<check_fns, checks, audits>>

\* storage.load_remediation_plan(plan_id)
LoadRemediationPlan(plan_id) ==
    /\ LET r == load_remediation_plan(plans, plan_id)
       IN  ret' = [op |-> "load_remediation_plan", raised |-> r.raised, value |-> r.value]
    /\ written' = <<>>
    /\ called' = <<>>
    /\ UNCHANGED <<check_fns, checks, audits, plans>>

\* storage.list_audit_results(audit_type, limit); the value kept is the
\* list returned together with the two arguments.
ListAuditResults(files, audit_type, limit) ==
    /\ LET r == list_audit_results(audits, files, audit_type, limit)
       IN  ret' = [op |-> "list_audit_results", raised |-> r.raised,
                   value |-> [audit_type |-> audit_type, limit |-> limit, results |-> r.value]]
    /\ written' = <<>>
    /\ called' = <<>>
    /\ UNCHANGED <<check_fns, checks, audits, plans>>

\* The ids a caller saves under: those in use and, while the directory has
\* room, a fresh one.
SaveIds(dir, most) == {id \in 1..(Len(dir) + 1) : id <= most}

\* The audit_type arguments of a listing ("None": no filter) and its limits.
TypeFilters == {"None"} \cup AuditType

Limits == 0..MaxFiles

\* The operations that read the storage and change nothing.
Reads == {"load_audit_result", "load_remediation_plan", "list_audit_results"}

\* A read ends the behaviour, for it leaves the storage as it found it, and
\* a behaviour writes to one of the two directories, for they share nothing.
NextStorage ==
    \/ /\ ret.op \notin Reads
       /\ plans = <<>>
       /\ \E id \in SaveIds(audits, MaxFiles) : \E result \in SaveableResults :
             \E mtime \in WriteTimes(audits) : SaveAuditResult(AuditEntity(id, result), mtime)
    \/ /\ ret.op \notin Reads
       /\ \E audit_id \in Ids(audits) : LoadAuditResult(audit_id)
    \/ /\ ret.op \notin Reads
       /\ audits = <<>>
       /\ \E id \in SaveIds(plans, MaxPlans) : \E plan \in SaveablePlans(id) :
             SaveRemediationPlan(plan)
    \/ /\ ret.op \notin Reads
       /\ \E plan_id \in Ids(plans) : LoadRemediationPlan(plan_id)
    \/ /\ ret.op \notin Reads
       /\ \E files \in SortedFiles(audits) : \E audit_type \in TypeFilters :
             \E limit \in Limits : ListAuditResults(files, audit_type, limit)

SpecStorage == InitStorage /\ [][NextStorage]_vars

(***************************************************************************)
(* Listings of a history directory that holds files of any content.        *)
(***************************************************************************)
\* What the file <id>.json can hold: a document that save_audit_result
\* wrote, text that is not JSON, a JSON array, or a JSON object without the
\* member id or without the member audit_type.
FileContents(id) ==
    {audit_dump_json(AuditEntity(id, r)) : r \in SaveableResults}
    \cup {[json |-> "invalid"],
          [json |-> "array"],
          [json |-> "object", audit_type |-> "cmdb"],
          [json |-> "object", id |-> id]}

\* The directories of n files, written one after the other.
RECURSIVE Directories(_)
Directories(n) ==
    IF n = 0 THEN {<<>>}
    ELSE UNION {{Append(dir, [doc |-> doc, mtime |-> mtime]) :
                    doc \in FileContents(n),
                    mtime \in {t \in 1..MaxClock : n = 1 \/ dir[n - 1].mtime <= t}} :
                dir \in Directories(n - 1)}

InitList ==
    /\ \E n \in 0..MaxFiles : audits \in Directories(n)
    /\ plans = <<>>
    /\ check_fns = <<>>
    /\ checks = <<>>
    /\ ret = NoReturn
    /\ called = <<>>
    /\ written = <<>>

NextList ==
    /\ ret.op \notin Reads
    /\ \E files \in SortedFiles(audits) : \E audit_type \in TypeFilters :
          \E limit \in Limits : ListAuditResults(files, audit_type, limit)

SpecList == InitList /\ [][NextList]_vars

(***************************************************************************)
(* The CMDB rate checks on their own, over populations large enough for a  *)
(* rate to meet its threshold.                                             *)
(***************************************************************************)
\* What the data source answers to a rate check: a fault, or a population
\* of which some records violate.
PopulationReplies ==
    {Reply(TRUE, 0, 0)} \cup
    UNION {{Reply(FALSE, t, f) : f \in 0..t} : t \in 0..MaxTotal}

\* One call of a check function of tools/cmdb.py; the value kept is the
\* outcome together with the function and the reply it read.
RunCmdbCheck(fname, reply) ==
    /\ LET r == CallCheck(fname, reply)
       IN  ret' = [op |-> "cmdb_check", raised |-> r.raised,
                   value |-> [fname |-> fname, reply |-> reply, check |-> r.value]]
    /\ called' = <<fname>>
    /\ UNCHANGED <<check_fns, checks, audits, plans, written>>

NextCmdb ==
    /\ ret.op = "init"
    /\ \E i \in 1..Len(CmdbChecks) : \E reply \in PopulationReplies :
          RunCmdbCheck(CmdbChecks[i], reply)

SpecCmdb == InitAudit /\ [][NextCmdb]_vars

(***************************************************************************)
(* The client on its own: one call of _request.                            *)
(***************************************************************************)
\* What session.request can do at an attempt: respond with a status code,
\* a 429 with or without the Retry-After header, or raise.
AttemptResults ==
    {Response(s, <<>>) : s \in {200, 401, 403, 404, 429, 500}}
    \cup {Response(429, <<7>>)}
    \cup {RequestsException(e) : e \in {"requests.ConnectionError", "requests.Timeout",
                                        "requests.TooManyRedirects"}}

\* What session.request does at each of the attempts _request can make.
Sessions(max_retries) == [1..(max_retries + 1) -> AttemptResults]

\* client._request(...); the value kept is the outcome together with
\* max_retries and the session.
Request(max_retries, session) ==
    /\ LET r == request(max_retries, session)
       IN  ret' = [op |-> "request", raised |-> r.raised,
                   value |-> [max_retries |-> max_retries, session |-> session,
                              result |-> r.value, attempts |-> r.attempts,
                              waits |-> r.waits]]
    /\ UNCHANGED <<check_fns, checks, audits, plans, called, written>>

NextClient ==
    /\ ret.op = "init"
    /\ \E max_retries \in 0..MaxRetries : \E session \in Sessions(max_retries) :
          Request(max_retries, session)

SpecClient == InitAudit /\ [][NextClient]_vars

(***************************************************************************)
(* compliance_report over a storage that holds one audit result.           *)
(***************************************************************************)
InitReport ==
    /\ \E a \in ComparedAudits : audits = <<a>>
    /\ plans = <<>>
    /\ check_fns = <<>>
    /\ checks = <<>>
    /\ ret = NoReturn
    /\ called = <<>>
    /\ written = <<>>

\* What the data source answers during a fresh audit: the checks of one
\* domain all get the same kind of answer, a fault, one that makes the
\* check pass or one that makes it fail.
DomainAnswers == {"fault", "pass", "fail"}

AnswerOf(fname, kind) ==
    IF kind = "fault" THEN Reply(TRUE, 0, 0)
    ELSE IF fname = "check_pattern_coverage"
    THEN (IF kind = "pass" THEN Reply(FALSE, 0, threshold) ELSE Reply(FALSE, 0, 0))
    ELSE (IF kind = "pass" THEN Reply(FALSE, 1, 0) ELSE Reply(FALSE, 1, 1))

FreshReplies ==
    {[i \in 1..Len(all_check_fns) |->
        AnswerOf(all_check_fns[i],
                 IF i <= Len(CmdbChecks) THEN c
                 ELSE IF i <= Len(CmdbChecks) + Len(DiscoveryChecks) THEN d ELSE a)] :
     c \in DomainAnswers, d \in DomainAnswers, a \in DomainAnswers}

\* The report_format arguments.
ReportFormats == {"json", "markdown"}

\* compliance_report(audit_id, audit_type, report_format)
ComplianceReport(audit_id, audit_type, report_format, replies) ==
    /\ LET r == generate_compliance_report(audits, audit_id, audit_type, report_format,
                                           Len(audits) + 1, replies)
       IN  /\ ret' = [op |-> "compliance_report",
                      args |-> [audit_id |-> audit_id, audit_type |-> audit_type,
                                report_format |-> report_format],
                      raised |-> r.raised, value |-> r.value]
           /\ audits' = r.audits
           /\ called' = r.called
           /\ written' = IF Len(r.audits) > Len(audits)
                         THEN <<HistoryFile(Len(r.audits))>> ELSE <<>>
    /\ UNCHANGED <<check_fns, checks, plans>>

\* Each behaviour is one call: a report on a stored result (the replies
\* play no part), or on a fresh audit.
NextReport ==
    \/ /\ ret.op = "init"
       /\ \E audit_id \in Ids(audits) : \E audit_type \in AuditType :
             \E report_format \in ReportFormats :
                ComplianceReport(audit_id, audit_type, report_format, <<>>)
    \/ /\ ret.op = "init"
       /\ \E audit_type \in AuditType : \E report_format \in ReportFormats :
             \E replies \in FreshReplies :
                ComplianceReport(0, audit_type, report_format, replies)

SpecReport == InitReport /\ [][NextReport]_vars

(***************************************************************************)
(* Properties of the engine (SpecEngine).                                  *)
(***************************************************************************)
\* C1: run_audit never raises; its result holds one outcome per check
\* function, in list order: the function's own outcome when it returned, an
\* outcome of status error exactly when it raised; and every function of the
\* list was called, those after a raising one included.
C1_FailureIsolation ==
    ret.op = "run_audit" =>
        /\ ~ret.raised
        /\ Len(ret.value.checks) = Len(check_fns)
        /\ \A i \in 1..Len(check_fns) :
              /\ (ret.value.checks[i].status = "error") <=> check_fns[i].call.raised
              /\ ~check_fns[i].call.raised => ret.value.checks[i] = check_fns[i].call.value
        /\ Len(called) = Len(check_fns)
        /\ \A i \in 1..Len(check_fns) : called[i] = check_fns[i].fname

\* A run in which a function raised and a later function still returned its
\* outcome.
C1_Witness ==
    /\ ret.op = "run_audit"
    /\ ~ret.raised
    /\ \E i, j \in 1..Len(check_fns) :
          /\ i < j
          /\ check_fns[i].call.raised
          /\ ~check_fns[j].call.raised
          /\ Len(ret.value.checks) >= j
          /\ ret.value.checks[i].status = "error"
          /\ ret.value.checks[j].status = "fail"

HasStatus(cs, st) == \E i \in 1..Len(cs) : cs[i].status = st

\* C2: the result's status is completed_with_errors if an outcome has status
\* error, otherwise completed if one has status fail, otherwise passed.
C2_StatusDerivation ==
    ret.op = "run_audit" /\ ~ret.raised =>
        ret.value.status =
            IF HasStatus(ret.value.checks, "error") THEN "completed_with_errors"
            ELSE IF HasStatus(ret.value.checks, "fail") THEN "completed"
            ELSE "passed"

\* A run with both an error and a failure: error takes precedence.
C2_Witness ==
    /\ ret.op = "run_audit"
    /\ ~ret.raised
    /\ HasStatus(ret.value.checks, "error")
    /\ HasStatus(ret.value.checks, "fail")
    /\ ret.value.status = "completed_with_errors"

(***************************************************************************)
(* Properties of the scorer (SpecScore).                                   *)
(***************************************************************************)
NumChecks(cs, sev, st) ==
    Cardinality({i \in 1..Len(cs) : cs[i].severity = sev /\ cs[i].status = st})

TierField(score, sev) ==
    CASE sev = "critical" -> score.critical_score
      [] sev = "high" -> score.high_score
      [] sev = "medium" -> score.medium_score
      [] sev = "low" -> score.low_score

\* 100 * passed / (passed + failed) of one severity, 100 when it has none.
PassRate(cs, sev) ==
    LET p == NumChecks(cs, sev, "pass")
        f == NumChecks(cs, sev, "fail")
    IN  IF p + f = 0 THEN Frac(100, 1) ELSE Frac(100 * p, p + f)

\* 0.4 * critical + 0.3 * high + 0.2 * medium + 0.1 * low
Weighted(c, h, m, l) ==
    FracAdd(FracAdd(FracMul(Frac(4, 10), c), FracMul(Frac(3, 10), h)),
            FracAdd(FracMul(Frac(2, 10), m), FracMul(Frac(1, 10), l)))

\* The hundredths h are the fraction x exactly.
IsExactly(h, x) == h * x.den = 100 * x.num

\* The hundredths h are the fraction x rounded to two decimals.
IsRounded(h, x) ==
    LET d == 100 * x.num - h * x.den
    IN  2 * (IF d < 0 THEN -d ELSE d) <= x.den

\* C3 as stated: every tier score is exactly 100 * passed / (passed + failed)
\* (100 for a tier without pass/fail checks) and the overall score is exactly
\* 0.4 * critical + 0.3 * high + 0.2 * medium + 0.1 * low of the tier scores
\* returned.
C3_ExactScores ==
    ret.op = "calculate_score" =>
        /\ \A sev \in CheckSeverity :
              IsExactly(TierField(ret.value, sev), PassRate(checks, sev))
        /\ IsExactly(ret.value.overall_score,
                     Weighted(Hundredths(ret.value.critical_score),
                              Hundredths(ret.value.high_score),
                              Hundredths(ret.value.medium_score),
                              Hundredths(ret.value.low_score)))

\* C3 as amended: every tier score is 100 * passed / (passed + failed) (100
\* for a tier without pass/fail checks) rounded to two decimals, and the
\* overall score is 0.4 * critical + 0.3 * high + 0.2 * medium + 0.1 * low of
\* the unrounded tier scores, rounded to two decimals.
C3_RoundedScores ==
    ret.op = "calculate_score" =>
        /\ \A sev \in CheckSeverity :
              IsRounded(TierField(ret.value, sev), PassRate(checks, sev))
        /\ IsRounded(ret.value.overall_score,
                     Weighted(PassRate(checks, "critical"), PassRate(checks, "high"),
                              PassRate(checks, "medium"), PassRate(checks, "low")))

\* A scored list whose pass rates are no whole hundredths: 2 of 3 critical
\* checks and 1 of 2 low checks pass.
C3_Witness ==
    /\ ret.op = "calculate_score"
    /\ NumChecks(checks, "critical", "pass") = 2
    /\ NumChecks(checks, "critical", "fail") = 1
    /\ NumChecks(checks, "low", "pass") = 1
    /\ NumChecks(checks, "low", "fail") = 1
    /\ ret.value.critical_score = 6667
    /\ ret.value.low_score = 5000

\* The list cs with the checks at the positions in S failing.
FailAt(cs, S) ==
    [i \in 1..Len(cs) |-> IF i \in S THEN [cs[i] EXCEPT !.status = "fail"] ELSE cs[i]]

Positions(cs, sev, st) == {i \in 1..Len(cs) : cs[i].severity = sev /\ cs[i].status = st}

\* Turning one passing critical check into a failing one lowers the overall
\* score of cs by more than turning any passing low checks into failing ones.
CriticalOutweighsLow(cs, overall) ==
    \A i \in Positions(cs, "critical", "pass") :
        \A S \in SUBSET Positions(cs, "low", "pass") :
            overall - calculate_score(FailAt(cs, {i})).overall_score
                > overall - calculate_score(FailAt(cs, S)).overall_score

\* C4 as stated: for any check list, one passing critical check turned into
\* a failing one lowers the overall score by more than any number of passing
\* low checks turned into failing ones.
C4_CriticalOutweighsLow ==
    ret.op = "calculate_score" => CriticalOutweighsLow(checks, ret.value.overall_score)

\* C4 as amended: the same, for check lists with at most three critical
\* checks of status pass or fail.
C4_CriticalOutweighsLowUpTo3 ==
    ret.op = "calculate_score"
        /\ NumChecks(checks, "critical", "pass") + NumChecks(checks, "critical", "fail") <= 3
        => CriticalOutweighsLow(checks, ret.value.overall_score)

\* A scored list with three critical checks, one of them failing already, and
\* two passing low checks.
C4_Witness ==
    /\ ret.op = "calculate_score"
    /\ NumChecks(checks, "critical", "pass") = 2
    /\ NumChecks(checks, "critical", "fail") = 1
    /\ NumChecks(checks, "low", "pass") = 2
    /\ ret.value.overall_score = 8667

(***************************************************************************)
(* Properties of the remediation tools (Spec, SpecStore, SpecPlan).        *)
(***************************************************************************)
Terminal == {"done", "skipped"}

\* C5: statuses done and skipped are terminal: no validate_fix or
\* track_progress call changes the status of an item that is done or skipped.
C5_TerminalStatuses ==
    [][\A p \in 1..Len(plans) : \A i \in 1..Len(plans[p].items) :
          plans[p].items[i].status \in Terminal
              => plans'[p].items[i].status = plans[p].items[i].status]_vars

\* The fresh status and details of a check function called again: those of
\* its outcome, or error and the traceback when it raises.
FreshStatus(fname, reply) ==
    IF CallCheck(fname, reply).raised THEN "error" ELSE CallCheck(fname, reply).value.status

FreshDetails(fname, reply) ==
    IF CallCheck(fname, reply).raised THEN "traceback" ELSE CallCheck(fname, reply).value.details

\* validate_fix on the item at position pos of a plan, whose check is
\* registered, with the data source answering reply: the call does not raise,
\* calls the registered function once and saves the plan; the item is done
\* with the confirmation note when the fresh status is pass, else keeps its
\* status and gets the fresh details as its note; nothing else of the items
\* changes.
ValidateEffect(p, pos, reply) ==
    LET item == plans[p].items[pos]
        fname == CHECK_REGISTRY[item.check_name].fn
        after == plans'[p].items[pos]
    IN  /\ ~ret'.raised
        /\ called' = <<fname>>
        /\ written' = <<PlanFile(p)>>
        /\ IF FreshStatus(fname, reply) = "pass"
           THEN after = [item EXCEPT !.status = "done",
                                     !.notes = <<"Validated: check now passes", "">>]
           ELSE after = [item EXCEPT !.notes = <<"Validation failed: ",
                                                 FreshDetails(fname, reply)>>]
        /\ Len(plans'[p].items) = Len(plans[p].items)
        /\ \A j \in 1..Len(plans[p].items) : j # pos => plans'[p].items[j] = plans[p].items[j]

\* C6: validate_fix on an existing item with a registered check runs that one
\* check again through run_check; a fresh pass makes the item done with a
\* confirmation note; a fresh fail, skip or error (the check raising
\* included) leaves the status and records the fresh details in the notes;
\* either way the plan is saved.
C6_ValidateFix ==
    [][\A p \in 1..Len(plans) : \A pos \in 1..Len(plans[p].items) :
          Registered(plans[p].items[pos].check_name) =>
              \A reply \in Replies(CHECK_REGISTRY[plans[p].items[pos].check_name].fn) :
                  ValidateFix(p, plans[p].items[pos].id, reply) => ValidateEffect(p, pos, reply)]_vars

\* A validation whose check raised: the item is still pending and its note
\* holds the traceback.
C6_Witness ==
    /\ ret.op = "validate_fix"
    /\ ~ret.raised
    /\ written = <<PlanFile(1)>>
    /\ called = <<"check_pattern_coverage">>
    /\ ret.value.new_status = "error"
    /\ \E i \in 1..Len(plans[1].items) :
          /\ plans[1].items[i].id = ret.value.item_id
          /\ plans[1].items[i].status = "pending"
          /\ plans[1].items[i].notes = <<"Validation failed: ", "traceback">>

AllTerminal(items) == \A i \in 1..Len(items) : items[i].status \in Terminal

\* C7: the status of every stored plan is a function of its items: empty iff
\* it has no items, completed iff it has items and all are done or skipped,
\* active otherwise.
C7_PlanStatus ==
    \A p \in 1..Len(plans) :
        plans[p].status =
            IF Len(plans[p].items) = 0 THEN "empty"
            ELSE IF AllTerminal(plans[p].items) THEN "completed"
            ELSE "active"

\* A plan of three items that validate_fix has completed.
C7_Witness ==
    /\ ret.op = "validate_fix"
    /\ Len(plans[1].items) = 3
    /\ AllTerminal(plans[1].items)
    /\ plans[1].status = "completed"

NumItems(items, status) == Cardinality({i \in 1..Len(items) : items[i].status = status})

\* C8 as stated: for a plan with items, all done or skipped, track_progress
\* reports status completed and progress_pct 100.0.
C8_CompletedIsHundred ==
    ret.op = "track_progress" /\ ~ret.raised
        /\ Len(plans[ret.value.plan_id].items) > 0
        /\ AllTerminal(plans[ret.value.plan_id].items)
        => /\ ret.value.status = "completed"
           /\ ret.value.progress_pct = 10000

\* C8 as amended: for a plan with items, all done or skipped, track_progress
\* reports status completed and progress_pct 100 * done / total rounded to
\* two decimals, which is 100.0 only when no item is skipped.
C8_CompletedProgress ==
    ret.op = "track_progress" /\ ~ret.raised
        /\ Len(plans[ret.value.plan_id].items) > 0
        /\ AllTerminal(plans[ret.value.plan_id].items)
        => LET items == plans[ret.value.plan_id].items
           IN  /\ ret.value.status = "completed"
               /\ IsRounded(ret.value.progress_pct,
                            Frac(100 * NumItems(items, "done"), Len(items)))
               /\ (ret.value.progress_pct = 10000) <=> (NumItems(items, "skipped") = 0)
               /\ plans[ret.value.plan_id].status = ret.value.status
               /\ plans[ret.value.plan_id].progress_pct = ret.value.progress_pct

\* track_progress on a plan with items [done, skipped]: completed, 50.0.
C8_Witness ==
    /\ ret.op = "track_progress"
    /\ ~ret.raised
    /\ Len(ret.value.items) = 2
    /\ ret.value.items[1].status = "done"
    /\ ret.value.items[2].status = "skipped"
    /\ ret.value.status = "completed"
    /\ ret.value.progress_pct = 5000

\* C9 as stated: progress_pct of every stored plan is exactly 100 * done /
\* total, 0 without items, and lies in [0, 100].
C9_ExactProgress ==
    \A p \in 1..Len(plans) :
        LET items == plans[p].items
        IN  /\ plans[p].progress_pct \in 0..10000
            /\ IF Len(items) = 0 THEN plans[p].progress_pct = 0
               ELSE IsExactly(plans[p].progress_pct,
                              Frac(100 * NumItems(items, "done"), Len(items)))

\* C9 as amended: progress_pct of every stored plan is 100 * done / total
\* rounded to two decimals, 0 without items, and lies in [0, 100].
C9_RoundedProgress ==
    \A p \in 1..Len(plans) :
        LET items == plans[p].items
        IN  /\ plans[p].progress_pct \in 0..10000
            /\ IF Len(items) = 0 THEN plans[p].progress_pct = 0
               ELSE IsRounded(plans[p].progress_pct,
                              Frac(100 * NumItems(items, "done"), Len(items)))

\* A plan of three items after the first of them was validated: 33.33.
C9_Witness ==
    /\ ret.op = "validate_fix"
    /\ Len(plans[1].items) = 3
    /\ NumItems(plans[1].items, "done") = 1
    /\ plans[1].progress_pct = 3333

\* The position in the check list cs of the check an item was built for;
\* the check lists of SpecPlan give every check its own name.
SourceOf(cs, item) ==
    IF \E i \in 1..Len(cs) : cs[i].name = item.check_name
    THEN CHOOSE i \in 1..Len(cs) : cs[i].name = item.check_name
    ELSE 0

\* critical, high, medium, low
PriorityRank(priority) ==
    CASE priority = "critical" -> 1
      [] priority = "high" -> 2
      [] priority = "medium" -> 3
      [] priority = "low" -> 4

\* C10: create_plan builds one pending item per failing check of the audit
\* and none for the other checks; the items are ordered critical, high,
\* medium, low, and items of one priority keep the order of their checks.
C10_PlanItems ==
    ret.op = "create_plan" /\ ~ret.raised =>
        LET items == ret.value.items
            cs == audits[ret.value.audit_result_id].checks
        IN  /\ plans[ret.value.id] = ret.value
            /\ \A i \in 1..Len(cs) :
                  Cardinality({n \in 1..Len(items) : items[n].check_name = cs[i].name})
                      = IF cs[i].status = "fail" THEN 1 ELSE 0
            /\ \A n \in 1..Len(items) :
                  /\ SourceOf(cs, items[n]) > 0
                  /\ items[n].priority = cs[SourceOf(cs, items[n])].severity
                  /\ items[n].status = "pending"
            /\ \A m, n \in 1..Len(items) :
                  m < n =>
                      \/ PriorityRank(items[m].priority) < PriorityRank(items[n].priority)
                      \/ /\ items[m].priority = items[n].priority
                         /\ SourceOf(cs, items[m]) < SourceOf(cs, items[n])

\* Failing checks of severities medium, critical, medium: the plan's items
\* are the critical one, then the two medium ones in the order of the audit.
C10_Witness ==
    /\ ret.op = "create_plan"
    /\ ~ret.raised
    /\ Len(audits[1].checks) = 3
    /\ \A i \in 1..3 : audits[1].checks[i].status = "fail"
    /\ audits[1].checks[1].severity = "medium"
    /\ audits[1].checks[2].severity = "critical"
    /\ audits[1].checks[3].severity = "medium"
    /\ Len(ret.value.items) = 3
    /\ ret.value.items[1].check_name = audits[1].checks[2].name
    /\ ret.value.items[2].check_name = audits[1].checks[1].name
    /\ ret.value.items[3].check_name = audits[1].checks[3].name

\* C11: every item of every stored plan made from the audit of a domain
\* runner has a check_name that is a key of the check registry, and
\* validate_fix never answers that no check function is registered.
C11_JoinKey ==
    /\ \A p \in 1..Len(plans) : \A i \in 1..Len(plans[p].items) :
          Registered(plans[p].items[i].check_name)
    /\ ret.op = "validate_fix" /\ ~ret.raised /\ "message" \in DOMAIN ret.value
          => ret.value.message # "No check function registered"

\* C12: no call of a remediation tool lets an exception leave the tool,
\* whatever ids it is given.
C12_NoUncaughtFailure ==
    ret.op \in {"compare", "create_plan", "track_progress", "validate_fix"} => ~ret.raised

\* The ids of the items of a plan.
IdsOfItems(items) == {items[i].id : i \in 1..Len(items)}

\* The check names of the items of a plan that have the id item_id.
NamesOfItem(items, item_id) ==
    {items[i].check_name : i \in {j \in 1..Len(items) : items[j].id = item_id}}

\* item_id is in no item of the plan, or in an item whose check_name is not
\* a key of the registry.
Unvalidatable(items, item_id) ==
    \/ item_id \notin IdsOfItems(items)
    \/ \E name \in NamesOfItem(items, item_id) : name \notin DOMAIN CHECK_REGISTRY

\* C13: validate_fix with an item id that is not in the plan, or on an item
\* whose check_name has no registered function, does not raise, returns an
\* error result, calls no check function, writes nothing and leaves the
\* stored plans as they were.
C13_ValidateErrors ==
    [][\A p \in 1..Len(plans) : \A item_id \in ItemIds(p) :
          Unvalidatable(plans[p].items, item_id) =>
              \A reply \in RepliesFor(p, item_id) :
                  ValidateFix(p, item_id, reply) =>
                      /\ ~ret'.raised
                      /\ "message" \in DOMAIN ret'.value
                      /\ ret'.value.status = "error"
                      /\ called' = <<>>
                      /\ written' = <<>>
                      /\ plans' = plans]_vars

\* validate_fix has answered that the item is not in a plan that has items.
C13_Witness ==
    /\ ret.op = "validate_fix"
    /\ ~ret.raised
    /\ "message" \in DOMAIN ret.value
    /\ ret.value.message = "Item not found in plan"
    /\ Len(plans[1].items) > 0
    /\ \A i \in 1..Len(plans[1].items) : plans[1].items[i].status = "pending"
    /\ called = <<>>
    /\ written = <<>>

(***************************************************************************)
(* Properties of audit_compare (SpecHistory).                              *)
(***************************************************************************)
\* failed(X): the names of the checks of X with status fail.
FailedOf(result) ==
    {result.checks[i].name : i \in {j \in 1..Len(result.checks) : result.checks[j].status = "fail"}}

\* C14: for two stored audit results A and B, compare returns new =
\* failed(B) \ failed(A), resolved = failed(A) \ failed(B) and persistent =
\* failed(A) \cap failed(B); the three are pairwise disjoint and their union
\* is failed(A) \cup failed(B).
C14_FindingSets ==
    ret.op = "compare" /\ ~ret.raised =>
        LET A == FailedOf(audits[ret.value.audit_id_1])
            B == FailedOf(audits[ret.value.audit_id_2])
            new == ret.value.new_findings
            resolved == ret.value.resolved_findings
            persistent == ret.value.persistent_findings
        IN  /\ new = B \ A
            /\ resolved = A \ B
            /\ persistent = A \cap B
            /\ new \cap resolved = {}
            /\ new \cap persistent = {}
            /\ resolved \cap persistent = {}
            /\ new \cup resolved \cup persistent = A \cup B

\* A comparison with a new, a resolved and a persistent finding.
C14_Witness ==
    /\ ret.op = "compare"
    /\ ~ret.raised
    /\ ret.value.new_findings # {}
    /\ ret.value.resolved_findings # {}
    /\ ret.value.persistent_findings # {}

\* C15: for two stored audit results A and B, compare returns score_delta =
\* B.overall_score - A.overall_score and trend improving, declining or
\* stable as the delta is positive, negative or zero.
C15_ScoreDelta ==
    ret.op = "compare" /\ ~ret.raised =>
        LET a == audits[ret.value.audit_id_1].score.overall_score
            b == audits[ret.value.audit_id_2].score.overall_score
        IN  /\ ret.value.score_delta = b - a
            /\ b > a => ret.value.trend = "improving"
            /\ b < a => ret.value.trend = "declining"
            /\ b = a => ret.value.trend = "stable"

\* Two different audit results of equal score compared: delta 0, stable.
C15_Witness ==
    /\ ret.op = "compare"
    /\ ~ret.raised
    /\ audits[1] # audits[2]
    /\ ret.value.audit_id_1 = 1
    /\ ret.value.audit_id_2 = 2
    /\ ret.value.score_delta = 0
    /\ ret.value.trend = "stable"

(***************************************************************************)
(* Properties of the audit runners (SpecAudit).                            *)
(***************************************************************************)
AuditRuns == {"run_cmdb_audit", "run_discovery_audit", "run_asset_audit", "run_full_audit"}

\* C16: a run of a runner writes its audit result once, and the result it
\* writes holds the outcome of every function of its list, the last one
\* included; no stored audit result has status running, no score or no
\* completed_at, and its score is calculate_score of its checks.
C16_PersistedOnce ==
    /\ ret.op \in AuditRuns =>
          /\ ~ret.raised
          /\ Len(audits) = 1
          /\ written = <<HistoryFile(1)>>
          /\ audits[1] = ret.value
          /\ Len(called) = Len(check_fns)
          /\ Len(audits[1].checks) = Len(check_fns)
    /\ \A id \in 1..Len(audits) :
          /\ audits[id].status # "running"
          /\ audits[id].score # NoScore
          /\ audits[id].completed_at # "None"
          /\ audits[id].score = calculate_score(audits[id].checks)

\* A full audit in which the last function raised has been stored.
C16_Witness ==
    /\ ret.op = "run_full_audit"
    /\ Len(audits) = 1
    /\ written = <<HistoryFile(1)>>
    /\ check_fns[Len(check_fns)].call.raised
    /\ audits[1].checks[Len(check_fns)].status = "error"
    /\ audits[1].status = "completed_with_errors"

\* The outcome names of the ten checks of the full audit: CMDB, discovery,
\* asset.
FullOrder ==
    <<"cmdb_orphan_compliance", "cmdb_stale_compliance", "cmdb_duplicate_compliance",
      "cmdb_missing_field_compliance",
      "stale_discovery_schedules", "pattern_coverage", "ci_reconciliation",
      "license_overallocation", "expired_hardware", "unassigned_assets">>

\* C17: a run of run_full_audit, whichever functions raise, stores one
\* result of type full with ten outcomes: the i-th is an error outcome
\* exactly when the i-th function raised, and else the outcome of the i-th
\* check of the order CMDB, discovery, asset.
C17_FullOrder ==
    ret.op = "run_full_audit" =>
        /\ ~ret.raised
        /\ Len(audits) = 1
        /\ audits[1].audit_type = "full"
        /\ Len(audits[1].checks) = 10
        /\ Len(check_fns) = 10
        /\ \A i \in 1..10 :
              /\ (audits[1].checks[i].status = "error") <=> check_fns[i].call.raised
              /\ ~check_fns[i].call.raised =>
                    /\ audits[1].checks[i] = check_fns[i].call.value
                    /\ audits[1].checks[i].name = FullOrder[i]

\* A full audit in which the first and the ninth function raised and the
\* others returned.
C17_Witness ==
    /\ ret.op = "run_full_audit"
    /\ Len(audits) = 1
    /\ Len(audits[1].checks) = 10
    /\ \A i \in 1..10 : check_fns[i].call.raised <=> i \in {1, 9}
    /\ audits[1].checks[1].status = "error"
    /\ audits[1].checks[2].name = "cmdb_stale_compliance"
    /\ audits[1].checks[10].name = "unassigned_assets"

(***************************************************************************)
(* Properties of the storage (SpecStorage).                                *)
(***************************************************************************)
\* Saving the entity under id in the directory dir keeps one file per id.
OneEntryPerId(dir, after, id) ==
    Len(after) = IF id \in 1..Len(dir) THEN Len(dir) ELSE Len(dir) + 1

Matching(history, audit_type) ==
    {id \in 1..Len(history) : audit_type = "None" \/ history[id].doc.audit_type = audit_type}

Least(a, b) == IF a <= b THEN a ELSE b

\* C19: list_audit_results(audit_type, limit) returns summaries of stored
\* audit results that match the filter, each once, newest first by the
\* modification time of their files, and as many as the limit allows: the
\* first limit of the matching ones.
C19_Listing ==
    ret.op = "list_audit_results" =>
        LET res == ret.value.results
            match == Matching(audits, ret.value.audit_type)
            listed == {res[i].id : i \in 1..Len(res)}
        IN  /\ ~ret.raised
            /\ Len(res) = Least(ret.value.limit, Cardinality(match))
            /\ listed \subseteq match
            /\ Cardinality(listed) = Len(res)
            /\ \A i \in 1..Len(res) :
                  /\ res[i].audit_type = audits[res[i].id].doc.audit_type
                  /\ res[i].status = audits[res[i].id].doc.status
            /\ \A i, j \in 1..Len(res) :
                  i < j => audits[res[i].id].mtime >= audits[res[j].id].mtime
            /\ \A id \in match \ listed : \A i \in 1..Len(res) :
                  audits[res[i].id].mtime >= audits[id].mtime

\* A listing of the cmdb results with limit 1 while the newest file holds a
\* discovery result: the older cmdb result is listed.
C19_Witness ==
    /\ ret.op = "list_audit_results"
    /\ ~ret.raised
    /\ ret.value.audit_type = "cmdb"
    /\ ret.value.limit = 1
    /\ Len(audits) = 2
    /\ audits[1].doc.audit_type = "cmdb"
    /\ audits[2].doc.audit_type = "discovery"
    /\ audits[2].mtime > audits[1].mtime
    /\ Len(ret.value.results) = 1
    /\ ret.value.results[1].id = 1

(***************************************************************************)
(* Properties of listings over files of any content (SpecList).            *)
(***************************************************************************)
\* The files a listing can summarise: JSON objects with id and audit_type.
Readable(history) ==
    {id \in 1..Len(history) :
        /\ history[id].doc.json = "object"
        /\ "id" \in DOMAIN history[id].doc
        /\ "audit_type" \in DOMAIN history[id].doc}

\* C20: whatever the files of the history directory hold, a listing does
\* not raise and returns the readable entries that match its filter, up to
\* its limit.
C20_TolerantListing ==
    ret.op = "list_audit_results" =>
        /\ ~ret.raised
        /\ LET match == {id \in Readable(audits) :
                            \/ ret.value.audit_type = "None"
                            \/ audits[id].doc.audit_type = ret.value.audit_type}
           IN  /\ Len(ret.value.results) = Least(ret.value.limit, Cardinality(match))
               /\ \A i \in 1..Len(ret.value.results) : ret.value.results[i].id \in match

(***************************************************************************)
(* Properties of the check functions.                                      *)
(***************************************************************************)
\* The outcomes the check functions returned to the runs whose results are
\* stored: those the engine made for a raising function are not among them.
ReturnedOutcomes ==
    UNION {{audits[i].checks[k] : k \in {k \in 1..Len(audits[i].checks) :
                                            audits[i].checks[k].status # "error"}} :
           i \in 1..Len(audits)}

\* C21: across the stored runs, whatever the data source returned, the
\* outcomes a check function returned under one name all carry the same
\* severity.
C21_FixedSeverity ==
    \A c \in ReturnedOutcomes : \A d \in ReturnedOutcomes :
        c.name = d.name => c.severity = d.severity

\* The policy thresholds of the four rate checks, in percent.
PolicyPercent(fname) ==
    CASE fname = "check_orphan_compliance" -> 20
      [] fname = "check_stale_compliance" -> 10
      [] fname = "check_duplicate_compliance" -> 5
      [] fname = "check_missing_field_compliance" -> 15

\* C22: a CMDB rate check that returns reports fail when violating/total is
\* strictly greater than its threshold and pass otherwise, and pass when
\* the population is empty.
C22_RateChecks ==
    (ret.op = "cmdb_check" /\ ~ret.raised) =>
        LET total == ret.value.reply.total
            found == ret.value.reply.found
            over == total > 0 /\ found * 100 > PolicyPercent(ret.value.fname) * total
        IN  /\ ret.value.check.status = (IF over THEN "fail" ELSE "pass")
            /\ total = 0 => ret.value.check.status = "pass"

\* A rate check returned for a population whose rate is exactly the
\* threshold.
C22_Witness ==
    /\ ret.op = "cmdb_check"
    /\ ~ret.raised
    /\ ret.value.reply.total > 0
    /\ ret.value.reply.found * 100 = PolicyPercent(ret.value.fname) * ret.value.reply.total
    /\ ret.value.check.status = "pass"

(***************************************************************************)
(* Properties of the scorer over lists of every status (SpecMixed).        *)
(***************************************************************************)
\* The positions of the checks that are scored: those that passed or failed.
ScoredPositions(cs) == {i \in 1..Len(cs) : cs[i].status \in {"pass", "fail"}}

\* C23: the overall score and the four tier scores calculate_score returns
\* lie between 0 and 100, and total_count equals passed_count + failed_count
\* and the number of checks of status pass or fail.
C23_ScoreBounds ==
    ret.op = "calculate_score" =>
        /\ \A f \in {"overall_score", "critical_score", "high_score",
                     "medium_score", "low_score"} :
              0 <= ret.value[f] /\ ret.value[f] <= 10000
        /\ ret.value.total_count = ret.value.passed_count + ret.value.failed_count
        /\ ret.value.total_count = Cardinality(ScoredPositions(checks))

\* calculate_score returned for a list that holds a passed, a failed and an
\* unscored check.
C23_Witness ==
    /\ ret.op = "calculate_score"
    /\ \E i, j, k \in 1..Len(checks) :
          /\ checks[i].status = "pass"
          /\ checks[j].status = "fail"
          /\ checks[k].status \in {"skip", "error"}
    /\ ret.value.total_count = 2

\* The list cs without its checks of status skip or error.
WithoutUnscored(cs) == SelectSeq(cs, LAMBDA c : c.status \in {"pass", "fail"})

\* The score of the empty list: 100.0 overall and in every tier, no counts.
EmptyScore ==
    [overall_score |-> 10000, critical_score |-> 10000, high_score |-> 10000,
     medium_score |-> 10000, low_score |-> 10000,
     passed_count |-> 0, failed_count |-> 0, total_count |-> 0]

\* C24: calculate_score of a list is calculate_score of the list without
\* its skip and error checks, and a list of skip and error checks only
\* scores as the empty list does.
C24_UnscoredIgnored ==
    ret.op = "calculate_score" =>
        /\ ret.value = calculate_score(WithoutUnscored(checks))
        /\ WithoutUnscored(checks) = <<>> => ret.value = EmptyScore

\* calculate_score returned for a list of skip and error checks only.
C24_Witness ==
    /\ ret.op = "calculate_score"
    /\ Len(checks) >= 2
    /\ \E i \in 1..Len(checks) : checks[i].status = "skip"
    /\ \E i \in 1..Len(checks) : checks[i].status = "error"
    /\ WithoutUnscored(checks) = <<>>
    /\ ret.value.overall_score = 10000

\* C25: the list of one failing critical check scores strictly lower than
\* the list of one failing low check, and a failing critical check with a
\* passing low one scores strictly lower than a passing critical check with
\* a failing low one.
C25_CriticalBelowLow ==
    ret.op = "calculate_score" =>
        /\ checks = <<AuditCheck("a", "critical", "fail", "")>> =>
              ret.value.overall_score
                < calculate_score(<<AuditCheck("a", "low", "fail", "")>>).overall_score
        /\ checks = <<AuditCheck("a", "critical", "fail", ""),
                      AuditCheck("b", "low", "pass", "")>> =>
              ret.value.overall_score
                < calculate_score(<<AuditCheck("a", "critical", "pass", ""),
                                    AuditCheck("b", "low", "fail", "")>>).overall_score

\* calculate_score returned 60.0 for a failing critical check with a
\* passing low one.
C25_Witness ==
    /\ ret.op = "calculate_score"
    /\ checks = <<AuditCheck("a", "critical", "fail", ""), AuditCheck("b", "low", "pass", "")>>
    /\ ret.value.overall_score = 6000

(***************************************************************************)
(* Properties of the client (SpecClient).                                  *)
(***************************************************************************)
\* An attempt that failed with a rate limit or a connection failure.
Transient(a) ==
    \/ a.kind = "response" /\ a.status_code = 429
    \/ a.kind = "exception" /\ a.exc \in {"requests.ConnectionError", "requests.Timeout"}

\* The exception a failed attempt stands for.
ErrorOf(a) ==
    IF a.kind = "exception"
    THEN IF Transient(a) THEN "AuditConnectionError" ELSE a.exc
    ELSE CASE a.status_code = 401 -> "AuditAuthError"
           [] a.status_code = 403 -> "AuditPermissionError"
           [] a.status_code = 404 -> "AuditNotFoundError"
           [] a.status_code = 429 -> "AuditRateLimitError"
           [] OTHER -> "AuditAPIError"

StatusesAndSeverities(cs) ==
    [i \in 1..Len(cs) |-> <<cs[i].status, cs[i].severity>>]

\* C27: for every way the ten check functions return or raise, the result
\* of run_full_audit has the outcome statuses and severities, the score and
\* the status that engine.run_audit gives for the same functions.
C27_SameAggregation ==
    ret.op = "run_full_audit" =>
        LET engine == run_audit("full", check_fns)
        IN  /\ ~ret.raised
            /\ ~engine.raised
            /\ StatusesAndSeverities(ret.value.checks)
                 = StatusesAndSeverities(engine.value.checks)
            /\ ret.value.score = engine.value.score
            /\ ret.value.status = engine.value.status

\* A full audit in which a function raised, one failed and one passed.
C27_Witness ==
    /\ ret.op = "run_full_audit"
    /\ Len(check_fns) = Len(all_check_fns)
    /\ \E i, j, k \in 1..Len(ret.value.checks) :
          /\ check_fns[i].call.raised
          /\ ret.value.checks[i].status = "error"
          /\ ret.value.checks[j].status = "fail"
          /\ ret.value.checks[k].status = "pass"
    /\ ret.value.status = "completed_with_errors"

\* The severity each CMDB check function declares for its outcome.
DeclaredSeverity(fname) ==
    CASE fname = "check_orphan_compliance" -> "medium"
      [] fname = "check_stale_compliance" -> "high"
      [] fname = "check_duplicate_compliance" -> "high"
      [] fname = "check_missing_field_compliance" -> "critical"

\* The CMDB check functions of the given severity.
OfSeverity(severity) ==
    {CmdbChecks[i] : i \in {i \in 1..Len(CmdbChecks) :
                                DeclaredSeverity(CmdbChecks[i]) = severity}}

\* The check functions a run executed, and whether it executed exactly the
\* functions of the set fns, each once, and stored one outcome for each.
ExecutedFns == {check_fns[i].body : i \in 1..Len(check_fns)}

ExecutedExactly(fns) ==
    /\ ExecutedFns = fns
    /\ Len(check_fns) = Cardinality(fns)
    /\ Len(called) = Cardinality(fns)
    /\ Len(audits[1].checks) = Cardinality(fns)

\* C28 as stated: run_cmdb_audit with a severity_filter executes the CMDB
\* checks of that severity and no other, whatever the filter.
C28_OnlyFiltered ==
    (ret.op = "run_cmdb_audit" /\ ret.args[1] \notin {"None", ""}) =>
        ExecutedExactly(OfSeverity(ret.args[1]))

\* C28: run_cmdb_audit with a severity_filter that some CMDB check has
\* executes the checks of that severity and no other; with a filter that
\* no CMDB check has it executes all four checks.
C28_FilteredOrAll ==
    (ret.op = "run_cmdb_audit" /\ ret.args[1] \notin {"None", ""}) =>
        IF OfSeverity(ret.args[1]) # {}
        THEN ExecutedExactly(OfSeverity(ret.args[1]))
        ELSE ExecutedExactly({CmdbChecks[i] : i \in 1..Len(CmdbChecks)})

\* run_cmdb_audit with the filter high ran the two checks of severity high.
C28_Witness ==
    /\ ret.op = "run_cmdb_audit"
    /\ ret.args = <<"high">>
    /\ ExecutedFns = {"check_stale_compliance", "check_duplicate_compliance"}
    /\ Len(audits[1].checks) = 2

(***************************************************************************)
(* Properties of the report tool (SpecReport).                             *)
(***************************************************************************)
\* C29: compliance_report without an audit_id stores a fresh audit result
\* of the requested audit_type and reports on it: the report and the stored
\* result are of the type asked for.
C29_ReportOfRequestedType ==
    (ret.op = "compliance_report" /\ ret.args.audit_id = 0) =>
        /\ ~ret.raised
        /\ written = <<HistoryFile(Len(audits))>>
        /\ audits[Len(audits)].audit_type = ret.args.audit_type
        /\ ret.value.report.audit_id = Len(audits)
        /\ ret.value.report.audit_type = ret.args.audit_type

(***************************************************************************)
(* Properties of remediation_progress (SpecStore).                         *)
(***************************************************************************)
\* The members of a stored plan other than progress_pct and status.
PlanFrame(plan) ==
    [id |-> plan.id, audit_result_id |-> plan.audit_result_id, items |-> plan.items]

\* C30: a track_progress call leaves every item of the plan (id,
\* check_name, priority, action, target ids, status, notes), the item
\* order, the plan's id and audit_result_id and every other plan as they
\* were, writes the plan file only and no audit result, and a second call
\* straight after the first changes nothing in the storage.
C30_TrackFrame ==
    [][(ret'.op = "track_progress" /\ ~ret'.raised) =>
          LET id == ret'.value.plan_id
          IN  /\ Len(plans') = Len(plans)
              /\ \A p \in 1..Len(plans) : p # id => plans'[p] = plans[p]
              /\ DOMAIN plans'[id] = DOMAIN plans[id]
              /\ PlanFrame(plans'[id]) = PlanFrame(plans[id])
              /\ \A i \in 1..Len(plans[id].items) :
                    /\ plans'[id].items[i].id = plans[id].items[i].id
                    /\ plans'[id].items[i].check_name = plans[id].items[i].check_name
                    /\ plans'[id].items[i].priority = plans[id].items[i].priority
                    /\ plans'[id].items[i].action = plans[id].items[i].action
                    /\ plans'[id].items[i].target_sys_ids = plans[id].items[i].target_sys_ids
                    /\ plans'[id].items[i].status = plans[id].items[i].status
                    /\ plans'[id].items[i].notes = plans[id].items[i].notes
              /\ audits' = audits
              /\ written' = <<PlanFile(id)>>
              /\ (ret.op = "track_progress" /\ ~ret.raised /\ ret.value.plan_id = id) =>
                    plans' = plans
              /\ TrackedPlan(plans'[id]) = plans'[id]]_vars

\* track_progress has completed a plan that holds a skipped item and an
\* item with a validation note, and set its progress.
C30_Witness ==
    /\ ret.op = "track_progress"
    /\ ~ret.raised
    /\ written = <<PlanFile(ret.value.plan_id)>>
    /\ plans[ret.value.plan_id].status = "completed"
    /\ plans[ret.value.plan_id].progress_pct > 0
    /\ plans[ret.value.plan_id].progress_pct < 10000
    /\ \E i \in 1..Len(plans[ret.value.plan_id].items) :
          plans[ret.value.plan_id].items[i].status = "skipped"

=============================================================================
